---------------------------- MODULE Spec2Model ----------------------------
(* TechTresses (Freelancer Tax Buddy): the tax, deduction, advance-tax and   *)
(* invoice calculations of the Express backend, as a request/response state  *)
(* machine.  A request arrives (Init), the matching controller handles it    *)
(* in one step and leaves its HTTP response in res.                          *)
(*                                                                           *)
(* Money is whole rupees, sent as JSON numbers.  The JavaScript code         *)
(* computes in IEEE doubles and rounds with Math.round; for the whole-rupee  *)
(* amounts modelled here the products with the rates used (0.05 ... 0.30,    *)
(* 0.18, 0.45, 0.75) never cross a rounding tie, so Math.round(x * r) is     *)
(* Round(x * pct, 100) on rationals.                                         *)
EXTENDS Integers, Sequences, FiniteSets, TLC

VARIABLES req, res, users, incomes, render, issued, client

vars == <<req, res, users, incomes, render, issued, client>>

------------------------------------------------------------------------------
(* Bounds of the input sets.                                                 *)

Window == 21
GridStep == 125000
GridCount == 20
FirstYear == 2024
YearSpan == 1
MaxExpenses == 2
MaxInvoiceAmount == 60
MaxTick == 2
AdvanceCount == 20
SmallIncome == 6

\* Income entries added to the store on top of what it starts with.
MaxIncomes == 2

\* Clock readings (milliseconds) and invoice numbers handed out.
MaxClock == 3

\* Income entries the store holds at most while entries are added, changed
\* and removed.
MaxStored == 2

\* Invoices in the invoice page's history, and income entries one browser
\* session adds.
MaxHistory == 2
MaxClientAdds == 2

\* Minutes in a day.
MinutesPerDay == 1440
MaxIssued == 2

------------------------------------------------------------------------------
(* JavaScript built-ins.                                                     *)

\* Math.round on the rational num/den (den > 0): nearest integer, ties
\* towards +Infinity.
Round(num, den) == (2 * num + den) \div (2 * den)

Max(a, b) == IF a >= b THEN a ELSE b

Min(a, b) == IF a <= b THEN a ELSE b

Digit(d) == <<"0", "1", "2", "3", "4", "5", "6", "7", "8", "9">>[d + 1]

\* String(n) for a non-negative integer, as a template literal prints it.
RECURSIVE ToStr(_)
ToStr(n) == IF n < 10 THEN Digit(n) ELSE ToStr(n \div 10) \o Digit(n % 10)

Pad2(n) == Digit(n \div 10) \o Digit(n % 10)

Pad3(n) == Digit(n \div 100) \o Pad2(n % 100)

\* The digits above the thousands, grouped in twos (lakh, crore).
RECURSIVE GroupIN(_)
GroupIN(m) == IF m < 100 THEN ToStr(m) ELSE GroupIN(m \div 100) \o "," \o Pad2(m % 100)

\* Number.prototype.toLocaleString('en-IN') for an integer.
RECURSIVE toLocaleStringIN(_)
toLocaleStringIN(n) ==
    IF n < 0 THEN "-" \o toLocaleStringIN(0 - n)
    ELSE IF n < 1000 THEN ToStr(n)
    ELSE GroupIN(n \div 1000) \o "," \o Pad3(n % 1000)

RECURSIVE SumAmounts(_)
SumAmounts(s) == IF s = <<>> THEN 0 ELSE s[1].amount + SumAmounts(Tail(s))

------------------------------------------------------------------------------
(* TaxService.calculateIncomeTax                                             *)

\* The new-regime slabs of the if-chain: a band applies up to and including
\* upto; its tax is base + (totalIncome - from) * pct / 100.
Slabs ==
    << [upto |-> 250000,  base |-> 0,      from |-> 0,       pct |-> 0],
       [upto |-> 500000,  base |-> 0,      from |-> 250000,  pct |-> 5],
       [upto |-> 750000,  base |-> 12500,  from |-> 500000,  pct |-> 10],
       [upto |-> 1000000, base |-> 37500,  from |-> 750000,  pct |-> 15],
       [upto |-> 1250000, base |-> 75000,  from |-> 1000000, pct |-> 20],
       [upto |-> 1500000, base |-> 125000, from |-> 1250000, pct |-> 25] >>

\* The final else branch with the rate typed as 0.03.
TopSlabLowRate == [base |-> 187500, from |-> 1500000, pct |-> 3]

\* The final else branch: above 1,500,000.
TopSlab == [base |-> 187500, from |-> 1500000, pct |-> 30]

\* The unrounded tax of one branch, in hundredths of a rupee.
SlabTax100(slab, totalIncome) ==
    slab.base * 100 + (totalIncome - slab.from) * slab.pct

\* The slab table with the 25% band's offset mistyped (125000 -> 12500).
SlabsWrongOffset ==
    [i \in 1..6 |-> IF i = 6 THEN [Slabs[i] EXCEPT !.base = 12500] ELSE Slabs[i]]

SlabOf(table, totalIncome) ==
    IF \E i \in 1..Len(table) : totalIncome <= table[i].upto
    THEN table[CHOOSE i \in 1..Len(table) :
                   /\ totalIncome <= table[i].upto
                   /\ \A j \in 1..(i - 1) : totalIncome > table[j].upto]
    ELSE TopSlab

calculateIncomeTaxWrongOffset(totalIncome) ==
    Round(SlabTax100(SlabOf(SlabsWrongOffset, totalIncome), totalIncome), 100)

calculateIncomeTax(totalIncome) ==
    Round(SlabTax100(SlabOf(Slabs, totalIncome), totalIncome), 100)

\* applyTDS with the product truncated (Math.floor) instead of rounded.
applyTDSFloor(amount) == (amount * 10) \div 100

\* applyTDS: 10% of the amount.
applyTDS(amount) == Round(amount * 10, 100)

\* checkGSTThreshold with the limit itself counted as crossed (>=).
checkGSTThresholdInclusive(totalIncome) == totalIncome >= 2000000

\* checkGSTThreshold: 20 lakhs.
checkGSTThreshold(totalIncome) == totalIncome > 2000000

------------------------------------------------------------------------------
(* TaxService.calculateDeductions                                            *)

Line(section, amount, description) ==
    [section |-> section, amount |-> amount, description |-> description]

\* The 80C bucket with the insurance line not limited by the remaining cap
\* and a premium of 50000.
Capped80CNoCap(income) ==
    LET max80C == 150000
        ppfAmount == Min(50000, max80C - 0)
        ppf == IF income > 300000
               THEN <<Line("80C - PPF", ppfAmount, "Public Provident Fund contribution")>>
               ELSE <<>>
        c1 == IF income > 300000 THEN 0 + ppfAmount ELSE 0
        elssAmount == Min(60000, max80C - c1)
        elssTaken == income > 400000 /\ c1 < max80C
        elss == IF elssTaken
                THEN <<Line("80C - ELSS", elssAmount, "Equity Linked Savings Scheme")>>
                ELSE <<>>
        c2 == IF elssTaken THEN c1 + elssAmount ELSE c1
        insTaken == income > 500000 /\ c2 < max80C
        ins == IF insTaken
               THEN <<Line("80C - Life Insurance", 50000, "Life insurance premium")>>
               ELSE <<>>
        c3 == IF insTaken THEN c2 + 50000 ELSE c2
    IN  [lines |-> ppf \o elss \o ins, current80C |-> c3]

\* The 80C bucket: PPF, ELSS and life insurance, each taken when the income
\* passes its threshold and the running total current80C is below max80C.
Capped80C(income) ==
    LET max80C == 150000
        ppfAmount == Min(50000, max80C - 0)
        ppf == IF income > 300000
               THEN <<Line("80C - PPF", ppfAmount, "Public Provident Fund contribution")>>
               ELSE <<>>
        c1 == IF income > 300000 THEN 0 + ppfAmount ELSE 0
        elssAmount == Min(60000, max80C - c1)
        elssTaken == income > 400000 /\ c1 < max80C
        elss == IF elssTaken
                THEN <<Line("80C - ELSS", elssAmount, "Equity Linked Savings Scheme")>>
                ELSE <<>>
        c2 == IF elssTaken THEN c1 + elssAmount ELSE c1
        insuranceAmount == Min(40000, max80C - c2)
        insTaken == income > 500000 /\ c2 < max80C
        ins == IF insTaken
               THEN <<Line("80C - Life Insurance", insuranceAmount, "Life insurance premium")>>
               ELSE <<>>
        c3 == IF insTaken THEN c2 + insuranceAmount ELSE c2
    IN  [lines |-> ppf \o elss \o ins, current80C |-> c3]

\* The forEach with the test amount >= 0: a zero entry gets a line too.
RECURSIVE ExpenseLinesNonNegative(_)
ExpenseLinesNonNegative(expenses) ==
    IF expenses = <<>> THEN <<>>
    ELSE (IF expenses[1].amount >= 0
          THEN <<Line("Business Expense", expenses[1].amount,
                      expenses[1].category \o " - business expense")>>
          ELSE <<>>) \o ExpenseLinesNonNegative(Tail(expenses))

\* Object.entries(expenses).forEach: the lines pushed, in entry order.
RECURSIVE ExpenseLines(_)
ExpenseLines(expenses) ==
    IF expenses = <<>> THEN <<>>
    ELSE (IF expenses[1].amount > 0
          THEN <<Line("Business Expense", expenses[1].amount,
                      expenses[1].category \o " - business expense")>>
          ELSE <<>>) \o ExpenseLines(Tail(expenses))

\* The forEach with every amount added to the total, positive or not.
RECURSIVE ExpenseTotalUnchecked(_)
ExpenseTotalUnchecked(expenses) ==
    IF expenses = <<>> THEN 0
    ELSE expenses[1].amount + ExpenseTotalUnchecked(Tail(expenses))

\* Object.entries(expenses).forEach: what it adds to totalDeductions.
RECURSIVE ExpenseTotal(_)
ExpenseTotal(expenses) ==
    IF expenses = <<>> THEN 0
    ELSE (IF expenses[1].amount > 0 THEN expenses[1].amount ELSE 0)
         + ExpenseTotal(Tail(expenses))

\* The home-office allowance taken as 20% of the income.
homeOfficeAllowance20(income) == Round(income * 20, 100)

\* Math.round(income * 0.25)
homeOfficeAllowance(income) == Round(income * 25, 100)

\* calculateDeductions with taxableIncome not clamped at 0.
calculateDeductionsUnclamped(income, expenses) ==
    LET capped == Capped80C(income)
        homeOffice == homeOfficeAllowance(income)
        deductions == capped.lines \o ExpenseLines(expenses)
                      \o <<Line("Home Office", homeOffice,
                                "Home office allowance (25% of income)")>>
        totalDeductions == ((0 + capped.current80C) + ExpenseTotal(expenses)) + homeOffice
        taxWithoutDeductions == calculateIncomeTax(income)
        taxableIncome == income - totalDeductions
        taxWithDeductions == calculateIncomeTax(taxableIncome)
    IN  [recommendedDeductions |-> deductions,
         totalDeductions |-> totalDeductions,
         possibleSavings |-> taxWithoutDeductions - taxWithDeductions,
         taxableIncome |-> taxableIncome,
         taxWithDeductions |-> taxWithDeductions]

\* TaxService.calculateDeductions: the result object.
calculateDeductions(income, expenses) ==
    LET capped == Capped80C(income)
        homeOffice == homeOfficeAllowance(income)
        deductions == capped.lines \o ExpenseLines(expenses)
                      \o <<Line("Home Office", homeOffice,
                                "Home office allowance (25% of income)")>>
        totalDeductions == ((0 + capped.current80C) + ExpenseTotal(expenses)) + homeOffice
        taxWithoutDeductions == calculateIncomeTax(income)
        taxableIncome == Max(0, income - totalDeductions)
        taxWithDeductions == calculateIncomeTax(taxableIncome)
    IN  [recommendedDeductions |-> deductions,
         totalDeductions |-> totalDeductions,
         possibleSavings |-> taxWithoutDeductions - taxWithDeductions,
         taxableIncome |-> taxableIncome,
         taxWithDeductions |-> taxWithDeductions]

------------------------------------------------------------------------------
(* TaxService.getAdvanceTaxDue                                               *)

\* percentageDue of the if-chain over currentMonth, in percent.
percentageDue(currentMonth) ==
    IF currentMonth < 6 THEN 0
    ELSE IF currentMonth < 9 THEN 15
    ELSE IF currentMonth < 12 THEN 45
    ELSE 75

\* The label chain with the year of the March date not advanced.
nextDueLabelSameYear(today) ==
    IF today.month < 6 THEN "June 15, " \o ToStr(today.year)
    ELSE IF today.month < 9 THEN "September 15, " \o ToStr(today.year)
    ELSE IF today.month < 12 THEN "December 15, " \o ToStr(today.year)
    ELSE "March 15, " \o ToStr(today.year)

\* nextDueDate of the if-chain: the template literal with the year printed.
nextDueLabel(today) ==
    IF today.month < 6 THEN "June 15, " \o ToStr(today.year)
    ELSE IF today.month < 9 THEN "September 15, " \o ToStr(today.year)
    ELSE IF today.month < 12 THEN "December 15, " \o ToStr(today.year)
    ELSE "March 15, " \o ToStr(today.year + 1)

getAdvanceTaxDue(estimatedTax, today) ==
    [amountDue |-> Round(estimatedTax * percentageDue(today.month), 100),
     nextDueDate |-> nextDueLabel(today),
     percentageDue |-> percentageDue(today.month)]


------------------------------------------------------------------------------
(* TaxService.getNextDueDate                                                 *)

\* The label chain of getNextDueDate with the September branch kept through
\* September (currentMonth < 10).
nextAdvanceTaxDueLateSeptember(today) ==
    IF today.month < 6 THEN "June 15, " \o ToStr(today.year)
    ELSE IF today.month < 10 THEN "September 15, " \o ToStr(today.year)
    ELSE IF today.month < 12 THEN "December 15, " \o ToStr(today.year)
    ELSE "March 15, " \o ToStr(today.year + 1)

\* nextAdvanceTaxDue: getNextDueDate's own copy of the month if-chain.
nextAdvanceTaxDue(today) ==
    IF today.month < 6 THEN "June 15, " \o ToStr(today.year)
    ELSE IF today.month < 9 THEN "September 15, " \o ToStr(today.year)
    ELSE IF today.month < 12 THEN "December 15, " \o ToStr(today.year)
    ELSE "March 15, " \o ToStr(today.year + 1)

\* getNextDueDate(userId): the userId is not read; nextGSTDue stays null.
getNextDueDate(userId, today) ==
    [nextAdvanceTaxDue |-> nextAdvanceTaxDue(today), nextGSTDue |-> "null"]

------------------------------------------------------------------------------
(* TaxController.getTaxRegimeComparison                                      *)

\* Number.prototype.toFixed(2) of the rational num/den (num >= 0, den > 0).
\* The integer part is split off first so that the products stay small.
toFixed2(num, den) ==
    LET h == (num \div den) * 100 + Round((num % den) * 100, den)
    IN  ToStr(h \div 100) \o "." \o Pad2(h % 100)

\* oldRegimeTax: standard deduction, three bands, then the 4% cess and
\* Math.round.  The tax is held in twentieths of a rupee (5% = 1/20,
\* 20% = 4/20, 30% = 6/20) and 1.04 = 26/25.
oldRegimeTax(incomeNum) ==
    LET taxableIncome == Max(0, incomeNum - 50000)
        tax20 == IF taxableIncome <= 250000 THEN 0
                 ELSE IF taxableIncome <= 500000 THEN taxableIncome - 250000
                 ELSE IF taxableIncome <= 1000000
                      THEN 12500 * 20 + (taxableIncome - 500000) * 4
                 ELSE 112500 * 20 + (taxableIncome - 1000000) * 6
    IN  Round(tax20 * 26, 500)

\* The comparison object with the recommendation decided by a strict <.
regimeComparisonStrict(incomeNum) ==
    LET newRegimeTax == calculateIncomeTax(incomeNum)
        old == oldRegimeTax(incomeNum)
    IN  [income |-> incomeNum,
         newRegime |-> [tax |-> newRegimeTax,
                        effectiveRate |-> toFixed2(newRegimeTax * 100, incomeNum)],
         oldRegime |-> [tax |-> old,
                        effectiveRate |-> toFixed2(old * 100, incomeNum)],
         recommended |-> IF newRegimeTax < old THEN "New Regime" ELSE "Old Regime",
         savings |-> IF newRegimeTax - old >= 0 THEN newRegimeTax - old
                     ELSE old - newRegimeTax]

\* The comparison object built by getTaxRegimeComparison.
regimeComparison(incomeNum) ==
    LET newRegimeTax == calculateIncomeTax(incomeNum)
        old == oldRegimeTax(incomeNum)
    IN  [income |-> incomeNum,
         newRegime |-> [tax |-> newRegimeTax,
                        effectiveRate |-> toFixed2(newRegimeTax * 100, incomeNum)],
         oldRegime |-> [tax |-> old,
                        effectiveRate |-> toFixed2(old * 100, incomeNum)],
         recommended |-> IF newRegimeTax <= old THEN "New Regime" ELSE "Old Regime",
         savings |-> IF newRegimeTax - old >= 0 THEN newRegimeTax - old
                     ELSE old - newRegimeTax]


------------------------------------------------------------------------------
(* The record store: User and Income collections.                            *)

\* createSampleUser: the user and the income entries a fresh database gets.
SampleUser ==
    [id |-> "u1", name |-> "John Doe", gstRegistered |-> FALSE,
     bankDetails |-> [bankName |-> "HDFC Bank", accountNumber |-> "1234567890",
                      ifscCode |-> "HDFC0001234", upiId |-> "john@paytm"]]

SampleIncomes ==
    << [clientName |-> "Tech Corp", amount |-> 50000, tdsDeducted |-> TRUE,
        gstApplicable |-> FALSE, userId |-> "u1"],
       [clientName |-> "Design Studio", amount |-> 30000, tdsDeducted |-> FALSE,
        gstApplicable |-> FALSE, userId |-> "u1"],
       [clientName |-> "Startup XYZ", amount |-> 75000, tdsDeducted |-> TRUE,
        gstApplicable |-> TRUE, userId |-> "u1"] >>

\* A user of a database that already holds users (connectDB seeds the sample
\* only when userCount === 0): one registered for GST.
GstUser ==
    [id |-> "u2", name |-> "Asha Rao", gstRegistered |-> TRUE,
     bankDetails |-> [bankName |-> "SBI", accountNumber |-> "9876543210",
                      ifscCode |-> "SBIN0004321", upiId |-> "asha@upi"]]

\* User.findById: the matching users (none when the id does not resolve).
findById(userId) == {u \in users : u.id = userId}

\* Income.find({ userId })
RECURSIVE findIncomes(_, _)
findIncomes(list, userId) ==
    IF list = <<>> THEN <<>>
    ELSE (IF list[1].userId = userId THEN <<list[1]>> ELSE <<>>)
         \o findIncomes(Tail(list), userId)

\* The TDS sum taken over every entry, the tdsDeducted filter left out.
RECURSIVE tdsCollectedOfEveryEntry(_)
tdsCollectedOfEveryEntry(list) ==
    IF list = <<>> THEN 0
    ELSE applyTDS(list[1].amount) + tdsCollectedOfEveryEntry(Tail(list))

\* incomes.filter(tdsDeducted).reduce(sum + applyTDS(amount))
RECURSIVE tdsCollectedOf(_)
tdsCollectedOf(list) ==
    IF list = <<>> THEN 0
    ELSE (IF list[1].tdsDeducted THEN applyTDS(list[1].amount) ELSE 0)
         + tdsCollectedOf(Tail(list))

\* gstRequired decided by the threshold alone, the registration not read.
gstRequiredByThresholdOnly(user, totalIncome) == checkGSTThreshold(totalIncome)

\* gstRequired = user.gstRegistered && checkGSTThreshold(totalIncome)
gstRequired(user, totalIncome) == user.gstRegistered /\ checkGSTThreshold(totalIncome)

\* TaxService.calculateTax for a user that exists.
calculateTax(user, today) ==
    LET mine == findIncomes(incomes, user.id)
        totalIncome == SumAmounts(mine)
        tdsCollected == tdsCollectedOf(mine)
        incomeTax == calculateIncomeTax(totalIncome)
        advanceTaxInfo == getAdvanceTaxDue(incomeTax, today)
    IN  [totalIncome |-> totalIncome,
         gstRequired |-> gstRequired(user, totalIncome),
         tdsCollected |-> tdsCollected,
         incomeTax |-> incomeTax,
         finalTaxPayable |-> Max(0, incomeTax - tdsCollected),
         advanceTaxDue |-> advanceTaxInfo.amountDue,
         nextAdvanceTaxDue |-> advanceTaxInfo.nextDueDate,
         incomeBreakdown |-> [i \in 1..Len(mine) |->
             [clientName |-> mine[i].clientName, amount |-> mine[i].amount,
              tdsDeducted |-> mine[i].tdsDeducted,
              gstApplicable |-> mine[i].gstApplicable]]]

------------------------------------------------------------------------------
(* Invoice amounts: the PDF path and the two JSON paths.                     *)

\* new Date().toLocaleDateString('en-IN'): d/m/yyyy
toLocaleDateStringIN(date) ==
    ToStr(date.day) \o "/" \o ToStr(date.month) \o "/" \o ToStr(date.year)

\* `INV-${Date.now()}`; the clock is read in milliseconds since the model's
\* epoch.
invoiceNumberAt(ms) == "INV-" \o ToStr(ms)

\* The amount block of addInvoiceContent with the GST charged on the amount
\* net of TDS.
pdfTotalAmountGstOnNet(amount, gstApplicable, tds) ==
    LET afterTds == IF tds THEN amount - Round(amount * 10, 100) ELSE amount
    IN  afterTds + (IF gstApplicable THEN Round(afterTds * 18, 100) ELSE 0)

\* addInvoiceContent: let totalAmount = amount; += GST; -= TDS.
pdfTotalAmount(amount, gstApplicable, tds) ==
    LET withGst == IF gstApplicable THEN amount + Round(amount * 18, 100) ELSE amount
    IN  IF tds THEN withGst - Round(amount * 10, 100) ELSE withGst

\* The document with the GST lines written ahead of the TDS lines.
addInvoiceContentGstFirst(invoiceData, now) ==
    LET amount == invoiceData.amount
        tdsAmount == Round(amount * 10, 100)
        gstAmount == Round(amount * 18, 100)
        bank == invoiceData.bankDetails
        orNA(v) == IF v = "" THEN "N/A" ELSE v
    IN  <<"TAX INVOICE",
          "Invoice Number: " \o invoiceNumberAt(now.ms),
          "Date: " \o toLocaleDateStringIN(now),
          "Bill To:", invoiceData.clientName,
          "Services:", "Freelance Development/Consulting Services",
          "Amount Details:",
          "Basic Amount: Rs" \o toLocaleStringIN(amount)>>
        \o (IF invoiceData.gstApplicable
            THEN <<"GST (18%): Rs" \o toLocaleStringIN(gstAmount),
                   "Total Amount (with GST): Rs" \o toLocaleStringIN(amount + gstAmount)>>
            ELSE <<>>)
        \o (IF invoiceData.tds
            THEN <<"TDS (10%): Rs" \o toLocaleStringIN(tdsAmount),
                   "Net Amount (after TDS): Rs" \o toLocaleStringIN(amount - tdsAmount)>>
            ELSE <<>>)
        \o <<"Total Amount: Rs" \o toLocaleStringIN(
                 pdfTotalAmount(amount, invoiceData.gstApplicable, invoiceData.tds))>>
        \o <<"Payment Details:",
             "Bank Name: " \o orNA(bank.bankName),
             "Account Number: " \o orNA(bank.accountNumber),
             "IFSC Code: " \o orNA(bank.ifscCode),
             "UPI ID: " \o orNA(bank.upiId)>>
        \o <<"This is a computer-generated invoice.", "Thank you for your business!",
             "Notes:">>
        \o (IF invoiceData.tds
            THEN <<"TDS (Tax Deducted at Source) has been deducted as per Indian tax laws.">>
            ELSE <<>>)
        \o (IF invoiceData.gstApplicable
            THEN <<"GST (Goods and Services Tax) is applicable as per current rates.">>
            ELSE <<>>)
        \o <<"Please make payment within 15 days of invoice date.">>

\* InvoiceService.addInvoiceContent: the text lines written to the document,
\* in order ("Rs" stands for the rupee sign).  getInvoiceData always hands
\* over a bankDetails object, so the payment block is always written.
addInvoiceContent(invoiceData, now) ==
    LET amount == invoiceData.amount
        tdsAmount == Round(amount * 10, 100)
        gstAmount == Round(amount * 18, 100)
        bank == invoiceData.bankDetails
        orNA(v) == IF v = "" THEN "N/A" ELSE v
    IN  <<"TAX INVOICE",
          "Invoice Number: " \o invoiceNumberAt(now.ms),
          "Date: " \o toLocaleDateStringIN(now),
          "Bill To:", invoiceData.clientName,
          "Services:", "Freelance Development/Consulting Services",
          "Amount Details:",
          "Basic Amount: Rs" \o toLocaleStringIN(amount)>>
        \o (IF invoiceData.tds
            THEN <<"TDS (10%): Rs" \o toLocaleStringIN(tdsAmount),
                   "Net Amount (after TDS): Rs" \o toLocaleStringIN(amount - tdsAmount)>>
            ELSE <<>>)
        \o (IF invoiceData.gstApplicable
            THEN <<"GST (18%): Rs" \o toLocaleStringIN(gstAmount),
                   "Total Amount (with GST): Rs" \o toLocaleStringIN(amount + gstAmount)>>
            ELSE <<>>)
        \o <<"Total Amount: Rs" \o toLocaleStringIN(
                 pdfTotalAmount(amount, invoiceData.gstApplicable, invoiceData.tds))>>
        \o <<"Payment Details:",
             "Bank Name: " \o orNA(bank.bankName),
             "Account Number: " \o orNA(bank.accountNumber),
             "IFSC Code: " \o orNA(bank.ifscCode),
             "UPI ID: " \o orNA(bank.upiId)>>
        \o <<"This is a computer-generated invoice.", "Thank you for your business!",
             "Notes:">>
        \o (IF invoiceData.tds
            THEN <<"TDS (Tax Deducted at Source) has been deducted as per Indian tax laws.">>
            ELSE <<>>)
        \o (IF invoiceData.gstApplicable
            THEN <<"GST (Goods and Services Tax) is applicable as per current rates.">>
            ELSE <<>>)
        \o <<"Please make payment within 15 days of invoice date.">>

\* The amounts of getInvoicePreview with the TDS taken on the amount after
\* GST was added.
previewAmountsTdsOnGross(amount, gstApplicable, tds) ==
    LET gstAmount == IF gstApplicable THEN Round(amount * 18, 100) ELSE 0
        afterGst == amount + gstAmount
        tdsAmount == IF tds THEN Round(afterGst * 10, 100) ELSE 0
    IN  [basicAmount |-> amount, gstAmount |-> gstAmount, tdsAmount |-> tdsAmount,
         totalAmount |-> afterGst - tdsAmount]

\* getInvoicePreview: the amounts block.
previewAmounts(amount, gstApplicable, tds) ==
    LET gstAmount == IF gstApplicable THEN Round(amount * 18, 100) ELSE 0
        afterGst == amount + gstAmount
        tdsAmount == IF tds THEN Round(amount * 10, 100) ELSE 0
    IN  [basicAmount |-> amount, gstAmount |-> gstAmount, tdsAmount |-> tdsAmount,
         totalAmount |-> afterGst - tdsAmount]

\* calculateInvoiceAmounts: the amounts block.
calculateAmounts(amount, gstApplicable, tds) ==
    LET gstAmount == IF gstApplicable THEN Round(amount * 18, 100) ELSE 0
        afterGst == amount + gstAmount
        tdsAmount == IF tds THEN Round(amount * 10, 100) ELSE 0
        totalAmount == afterGst - tdsAmount
    IN  [basicAmount |-> amount, gstAmount |-> gstAmount, tdsAmount |-> tdsAmount,
         totalAmount |-> totalAmount, netReceivable |-> Max(0, totalAmount)]


------------------------------------------------------------------------------
(* Requests.                                                                 *)

Boundaries == {250000, 500000, 750000, 1000000, 1250000, 1500000}

ReferencePoints == {0, 250000, 500000, 1000000, 1500000, 2000000}

\* Whole-rupee incomes: the reference points, every income within Window of
\* a slab boundary (all rounding residues of both bands) and a coarse grid.
Incomes ==
    ReferencePoints
    \cup {b + d : b \in Boundaries, d \in (0 - Window)..Window}
    \cup 0..Window
    \cup {k * GridStep : k \in 0..GridCount}

Years == FirstYear..(FirstYear + YearSpan)

Months == {[year |-> y, month |-> m] : y \in Years, m \in 1..12}

UserIds == {"", "u1", "u404"}

ExpenseCategories == {"laptop", "internet", "software"}

ExpenseAmounts == {0 - 500, 0, 12000, 40000}

\* An expense mapping as Object.entries lists it: distinct keys, in insertion
\* order.  A missing mapping is the empty one (expenses || {}).
ExpenseMaps ==
    UNION {{e \in [1..n -> [category : ExpenseCategories, amount : ExpenseAmounts]] :
               \A i, j \in 1..n : i # j => e[i].category # e[j].category}
           : n \in 0..MaxExpenses}

DeductionIncomes ==
    (0 - 1)..SmallIncome
    \cup {t + d : t \in {300000, 400000, 500000}, d \in {0 - 1, 0, 1}}
    \cup {450000, 750000, 1200000, 2000000}

AdvanceIncomes ==
    ReferencePoints \cup {450000} \cup {250000 + 20 * k : k \in 1..AdvanceCount}

InvoiceAmounts ==
    (0 - 1)..MaxInvoiceAmount \cup {30000, 50000, 75000, 99995, 100025}

\* The clock as an invoice request reads it: Date.now() and the local date.
InvoiceClock == {[ms |-> t, year |-> FirstYear, month |-> 7, day |-> 15] : t \in 1..MaxTick}

CalculateIncomeTaxRequests ==
    {[op |-> "calculateIncomeTax", totalIncome |-> i] : i \in Incomes}

GetDeductionsRequests ==
    {[op |-> "getDeductions", income |-> i, expenses |-> e] :
        i \in DeductionIncomes, e \in ExpenseMaps}

\* estimatedIncome is a query parameter: absent, or a decimal string that
\* parseFloat reads back as the number here.
GetAdvanceTaxRequests ==
    {[op |-> "getAdvanceTax", userId |-> u, hasEstimatedIncome |-> TRUE,
      estimatedIncome |-> i, today |-> t] :
        u \in UserIds, i \in AdvanceIncomes, t \in Months}
    \cup {[op |-> "getAdvanceTax", userId |-> u, hasEstimatedIncome |-> FALSE,
           estimatedIncome |-> 0, today |-> t] : u \in UserIds, t \in Months}

\* A missing amount or flag is falsy like 0 or false; a missing clientName or
\* userId is falsy like "".
InvoiceBodies(op) ==
    {[op |-> op, clientName |-> c, amount |-> a, gstApplicable |-> g, tds |-> t,
      userId |-> u, now |-> n] :
        c \in {"", "Design Studio"}, a \in InvoiceAmounts, g \in BOOLEAN,
        t \in BOOLEAN, u \in UserIds, n \in InvoiceClock}

CalculateInvoiceAmountsRequests ==
    {[op |-> "calculateInvoiceAmounts", amount |-> a, gstApplicable |-> g, tds |-> t] :
        a \in InvoiceAmounts, g \in BOOLEAN, t \in BOOLEAN}

GetNextDueDateRequests ==
    {[op |-> "getNextDueDate", userId |-> u, today |-> t] : u \in UserIds, t \in Months}

\* income is a query parameter: a decimal string that parseFloat reads back
\* as the number here; a missing one is falsy like 0.
RegimeIncomes ==
    (0 - 1)..SmallIncome
    \cup ReferencePoints
    \cup {300000, 800000}
    \cup {b + d : b \in {300000, 550000, 1050000}, d \in (0 - Window)..Window}

GetTaxRegimeComparisonRequests ==
    {[op |-> "getTaxRegimeComparison", income |-> i] : i \in RegimeIncomes}

TdsAmounts == 0..MaxInvoiceAmount \cup {30000, 50000, 75000, 99995}

ApplyTDSRequests == {[op |-> "applyTDS", amount |-> a] : a \in TdsAmounts}

ThresholdIncomes ==
    {2000000 + d : d \in (0 - Window)..Window} \cup {k * GridStep : k \in 0..GridCount}

CheckGSTThresholdRequests ==
    {[op |-> "checkGSTThreshold", totalIncome |-> i] : i \in ThresholdIncomes}

\* The invoice page's form values as parseFormData yields them: a whole-rupee
\* amount (0 for an empty field) and the two boxes.
ClientPreviewForms ==
    {[amount |-> a, tds |-> t, gst |-> g] :
        a \in 0..MaxInvoiceAmount \cup {30000, 50000}, t \in BOOLEAN, g \in BOOLEAN}

\* updatePreview: the amounts it stores in invoiceState.currentPreview, in
\* paise (hundredths of a rupee); amount * 0.1 and amount * 0.18 stay unrounded.
updatePreview(formData) ==
    LET amount == formData.amount
        tdsAmount == IF formData.tds THEN amount * 10 ELSE 0
        gstAmount == IF formData.gst THEN amount * 18 ELSE 0
        netAmount == (amount * 100 - tdsAmount) + gstAmount
    IN  [tdsAmount |-> tdsAmount, gstAmount |-> gstAmount, netAmount |-> netAmount]

\* generateInvoiceHTML: the amounts it prints, in paise.
generateInvoiceHTML(data) ==
    LET tdsAmount == IF data.tds THEN data.amount * 10 ELSE 0
        gstAmount == IF data.gst THEN data.amount * 18 ELSE 0
        totalAmount == (data.amount * 100 - tdsAmount) + gstAmount
    IN  [tdsAmount |-> tdsAmount, gstAmount |-> gstAmount, totalAmount |-> totalAmount]

UpdatePreviewRequests ==
    {[op |-> "updatePreview", form |-> f] : f \in ClientPreviewForms}

GenerateInvoiceHTMLRequests ==
    {[op |-> "generateInvoiceHTML", form |-> f] : f \in ClientPreviewForms}

\* utils.js calculateIndianTax: the slabs array; the last slab's max is
\* Infinity (open).
clientSlabs ==
    << [min |-> 0,       max |-> 250000,  open |-> FALSE, pct |-> 0],
       [min |-> 250000,  max |-> 500000,  open |-> FALSE, pct |-> 5],
       [min |-> 500000,  max |-> 750000,  open |-> FALSE, pct |-> 10],
       [min |-> 750000,  max |-> 1000000, open |-> FALSE, pct |-> 15],
       [min |-> 1000000, max |-> 1250000, open |-> FALSE, pct |-> 20],
       [min |-> 1250000, max |-> 1500000, open |-> FALSE, pct |-> 25],
       [min |-> 1500000, max |-> 1500000, open |-> TRUE,  pct |-> 30] >>

\* taxableInSlab with the slab's lower bound not subtracted.
taxableInSlabFromZero(slab, taxableIncome) ==
    IF slab.open THEN taxableIncome ELSE Min(taxableIncome, slab.max)

\* Math.min(taxableIncome, slab.max) - slab.min
taxableInSlab(slab, taxableIncome) ==
    (IF slab.open THEN taxableIncome ELSE Min(taxableIncome, slab.max)) - slab.min

\* The loop over the slabs from slab i on: the tax added, in paise.
RECURSIVE slabLoop(_, _)
slabLoop(i, taxableIncome) ==
    IF i > Len(clientSlabs) THEN 0
    ELSE (IF taxableIncome > clientSlabs[i].min
          THEN taxableInSlab(clientSlabs[i], taxableIncome) * clientSlabs[i].pct
          ELSE 0)
         + slabLoop(i + 1, taxableIncome)

\* utils.js calculateIndianTax(income, deductions): totalTax is left
\* unrounded, here in paise.
calculateIndianTax(income, deductions) ==
    LET taxableIncome == Max(0, income - deductions)
    IN  [grossIncome |-> income, deductions |-> deductions,
         taxableIncome |-> taxableIncome,
         totalTax |-> slabLoop(1, taxableIncome)]

\* main-simple.js calculateIndianTax(income, deductions), the simplified
\* version: the if-chain of the tax service without its Math.round; totalTax
\* in paise.
calculateIndianTaxSimplified(income, deductions) ==
    LET taxableIncome == Max(0, income - deductions)
    IN  [grossIncome |-> income, deductions |-> deductions,
         taxableIncome |-> taxableIncome,
         totalTax |-> SlabTax100(SlabOf(Slabs, taxableIncome), taxableIncome)]

ClientDeductions == {0, 50000}

CalculateIndianTaxRequests ==
    {[op |-> o, income |-> i, deductions |-> d] :
        o \in {"calculateIndianTax", "calculateIndianTaxSimplified"},
        i \in {x \in Incomes : x >= 0}, d \in ClientDeductions}

\* The calendar behind Date: leap years, month lengths, and the number of a
\* day counted from January 1 of FirstYear.  A day has MinutesPerDay minutes
\* (no clock change between now and the due date).
isLeapYear(y) == (y % 4 = 0 /\ y % 100 # 0) \/ y % 400 = 0

daysInMonth(y, m) ==
    IF m = 2 THEN (IF isLeapYear(y) THEN 29 ELSE 28)
    ELSE IF m \in {4, 6, 9, 11} THEN 30 ELSE 31

RECURSIVE daysBeforeMonth(_, _)
daysBeforeMonth(y, m) ==
    IF m = 1 THEN 0 ELSE daysBeforeMonth(y, m - 1) + daysInMonth(y, m - 1)

RECURSIVE daysBeforeYear(_)
daysBeforeYear(y) ==
    IF y <= FirstYear THEN 0
    ELSE daysBeforeYear(y - 1) + (IF isLeapYear(y - 1) THEN 366 ELSE 365)

dayNumber(d) == daysBeforeYear(d.year) + daysBeforeMonth(d.year, d.month) + d.day

\* Date.getTime() in minutes: new Date(y, m, d) is the midnight of its day.
timeOf(d, minute) == dayNumber(d) * MinutesPerDay + minute

\* Math.ceil of num / den for den > 0.
Ceil(num, den) == 0 - ((0 - num) \div den)

\* utils.js getNextTaxDueDate: the dueDates array in its order, months
\* numbered from 1.
dueDates ==
    << [month |-> 6,  day |-> 15, name |-> "June 15"],
       [month |-> 9,  day |-> 15, name |-> "September 15"],
       [month |-> 12, day |-> 15, name |-> "December 15"],
       [month |-> 3,  day |-> 15, name |-> "March 15"] >>

\* getNextTaxDueDate with now = the minute `minute` of the day `today`: the
\* first entry of dueDates, in array order, that lies after now in the current
\* year; June 15 of the next year if there is none.
getNextTaxDueDate(today, minute) ==
    LET now == timeOf(today, minute)
        dueDateObj(i) == [year |-> today.year, month |-> dueDates[i].month,
                          day |-> dueDates[i].day]
        later == {i \in 1..Len(dueDates) : timeOf(dueDateObj(i), 0) > now}
    IN  IF later # {}
        THEN LET i == CHOOSE k \in later : \A j \in later : k <= j
             IN  [date |-> dueDateObj(i), name |-> dueDates[i].name,
                  daysUntil |-> Ceil(timeOf(dueDateObj(i), 0) - now, MinutesPerDay)]
        ELSE LET firstDueDate == [year |-> today.year + 1, month |-> 6, day |-> 15]
             IN  [date |-> firstDueDate, name |-> "June 15",
                  daysUntil |-> Ceil(timeOf(firstDueDate, 0) - now, MinutesPerDay)]

\* The days of a month and the minutes of a day at which the page is opened.
ClientDays == {1, 14, 15, 16, 28}

ClientMinutes == {0, 1, MinutesPerDay - 1}

GetNextTaxDueDateRequests ==
    {[op |-> "getNextTaxDueDate",
      today |-> [year |-> y, month |-> m, day |-> d], minute |-> t] :
        y \in Years, m \in 1..12, d \in ClientDays, t \in ClientMinutes}

Requests ==
    CalculateIncomeTaxRequests \cup GetDeductionsRequests \cup GetAdvanceTaxRequests
    \cup InvoiceBodies("generateInvoice") \cup InvoiceBodies("getInvoicePreview")
    \cup CalculateInvoiceAmountsRequests
    \cup GetNextDueDateRequests \cup GetTaxRegimeComparisonRequests
    \cup ApplyTDSRequests \cup CheckGSTThresholdRequests
    \cup UpdatePreviewRequests \cup GenerateInvoiceHTMLRequests
    \cup CalculateIndianTaxRequests \cup GetNextTaxDueDateRequests

Pending == [status |-> 0]

Ok(status, message, data) ==
    [status |-> status, success |-> TRUE, message |-> message, data |-> data]

Fail(status, message) == [status |-> status, success |-> FALSE, message |-> message]

------------------------------------------------------------------------------
(* The controllers: the response each handler sends for a request r.         *)

\* TaxController.getDeductions
getDeductionsResponse(r) ==
    IF r.income = 0 \/ r.income <= 0
    THEN Fail(400, "Valid income amount is required")
    ELSE Ok(200, "Deductions calculated successfully",
            calculateDeductions(r.income, r.expenses))

\* TaxController.getAdvanceTax
getAdvanceTaxResponse(r) ==
    IF r.userId = ""
    THEN Fail(400, "User ID is required")
    ELSE IF r.hasEstimatedIncome
    THEN LET taxAmount == calculateIncomeTax(r.estimatedIncome)
             info == getAdvanceTaxDue(taxAmount, r.today)
         IN  Ok(200, "Advance tax calculated successfully",
                [estimatedTax |-> taxAmount, amountDue |-> info.amountDue,
                 nextDueDate |-> info.nextDueDate,
                 percentageDue |-> info.percentageDue])
    ELSE IF findById(r.userId) = {}
    THEN Fail(500, "Failed to calculate advance tax")
    ELSE LET user == CHOOSE u \in findById(r.userId) : TRUE
             taxAmount == calculateTax(user, r.today).incomeTax
             info == getAdvanceTaxDue(taxAmount, r.today)
         IN  Ok(200, "Advance tax calculated successfully",
                [estimatedTax |-> taxAmount, amountDue |-> info.amountDue,
                 nextDueDate |-> info.nextDueDate,
                 percentageDue |-> info.percentageDue])

\* TaxController.getNextDueDate
getNextDueDateResponse(r) ==
    IF r.userId = ""
    THEN Fail(400, "User ID is required")
    ELSE Ok(200, "Due dates retrieved successfully", getNextDueDate(r.userId, r.today))

\* TaxController.getTaxRegimeComparison
getTaxRegimeComparisonResponse(r) ==
    IF r.income = 0 \/ r.income <= 0
    THEN Fail(400, "Valid income amount is required")
    ELSE Ok(200, "Tax regime comparison completed", regimeComparison(r.income))

\* InvoiceController.generateInvoice, with InvoiceService.getInvoiceData and
\* InvoiceService.generateInvoice: the response carries the document.
generateInvoiceResponse(r) ==
    IF r.clientName = "" \/ r.amount = 0 \/ r.userId = ""
    THEN Fail(400, "Client name, amount, and user ID are required")
    ELSE IF r.amount <= 0
    THEN Fail(400, "Amount must be greater than 0")
    ELSE IF findById(r.userId) = {}
    THEN Fail(500, "Failed to generate invoice")
    ELSE LET user == CHOOSE u \in findById(r.userId) : TRUE
             invoiceData == [clientName |-> r.clientName,
                             amount |-> r.amount,
                             gstApplicable |-> r.gstApplicable,
                             tds |-> r.tds,
                             bankDetails |-> user.bankDetails]
         IN  Ok(200, "application/pdf", addInvoiceContent(invoiceData, r.now))

\* InvoiceController.getInvoicePreview
getInvoicePreviewResponse(r) ==
    IF r.clientName = "" \/ r.amount = 0 \/ r.userId = ""
    THEN Fail(400, "Client name, amount, and user ID are required")
    ELSE IF r.amount <= 0
    THEN Fail(400, "Amount must be greater than 0")
    ELSE LET a == previewAmounts(r.amount, r.gstApplicable, r.tds)
         IN  Ok(200, "Invoice preview generated successfully",
                [clientName |-> r.clientName,
                 basicAmount |-> a.basicAmount,
                 gstApplicable |-> r.gstApplicable,
                 gstAmount |-> a.gstAmount,
                 tds |-> r.tds,
                 tdsAmount |-> a.tdsAmount,
                 totalAmount |-> a.totalAmount,
                 invoiceNumber |-> invoiceNumberAt(r.now.ms),
                 date |-> toLocaleDateStringIN(r.now)])

\* calculateInvoiceAmounts rejecting a missing amount only, not a negative one.
calculateInvoiceAmountsResponseNoSignCheck(r) ==
    IF r.amount = 0
    THEN Fail(400, "Valid amount is required")
    ELSE LET a == calculateAmounts(r.amount, r.gstApplicable, r.tds)
         IN  Ok(200, "Invoice amounts calculated successfully",
                [basicAmount |-> a.basicAmount,
                 gstApplicable |-> r.gstApplicable,
                 gstAmount |-> a.gstAmount,
                 tds |-> r.tds,
                 tdsAmount |-> a.tdsAmount,
                 totalAmount |-> a.totalAmount,
                 netReceivable |-> a.netReceivable])

\* InvoiceController.calculateInvoiceAmounts
calculateInvoiceAmountsResponse(r) ==
    IF r.amount = 0 \/ r.amount <= 0
    THEN Fail(400, "Valid amount is required")
    ELSE LET a == calculateAmounts(r.amount, r.gstApplicable, r.tds)
         IN  Ok(200, "Invoice amounts calculated successfully",
                [basicAmount |-> a.basicAmount,
                 gstApplicable |-> r.gstApplicable,
                 gstAmount |-> a.gstAmount,
                 tds |-> r.tds,
                 tdsAmount |-> a.tdsAmount,
                 totalAmount |-> a.totalAmount,
                 netReceivable |-> a.netReceivable])

------------------------------------------------------------------------------
(* The state machine: one request in flight, handled in one step.            *)

\* No invoice number handed out yet; the clock stands at its first reading.
NoneIssued == [clock |-> 1, numbers |-> <<>>]

\* MockDataService.initializeMockData: the mock income list.
MockIncome ==
    << [clientName |-> "Tech Corp", amount |-> 50000, tdsDeducted |-> TRUE,
        gstApplicable |-> FALSE, userId |-> "demo-user-123"],
       [clientName |-> "Design Studio", amount |-> 30000, tdsDeducted |-> FALSE,
        gstApplicable |-> FALSE, userId |-> "demo-user-123"],
       [clientName |-> "Startup XYZ", amount |-> 75000, tdsDeducted |-> TRUE,
        gstApplicable |-> TRUE, userId |-> "demo-user-123"] >>

\* The browser when the scripts are loaded: new UnifiedApi() has set
\* useMockData = false and started the health check; nothing was called yet.
ClientIdle ==
    [useMockData |-> FALSE, checked |-> FALSE, mockIncome |-> MockIncome,
     invoiceList |-> <<>>, downloads |-> <<>>,
     lastCall |-> "none", requests |-> 0, backend |-> "none", outcome |-> "none"]

\* InvoiceService.generateInvoice not called yet: no document, no promise.
RenderIdle ==
    [pc |-> "idle", written |-> 0, queue |-> <<>>, buffers |-> <<>>,
     promise |-> "none", value |-> <<>>, error |-> "", settleCalls |-> 0]

Init ==
    /\ req \in Requests
    /\ res = Pending
    /\ users = {SampleUser}
    /\ incomes = SampleIncomes
    /\ render = RenderIdle
    /\ issued = NoneIssued
    /\ client = ClientIdle

\* A direct call of TaxService.calculateIncomeTax.
CalculateIncomeTax ==
    /\ req.op = "calculateIncomeTax"
    /\ res = Pending
    /\ res' = Ok(200, "returned", calculateIncomeTax(req.totalIncome))
    /\ UNCHANGED <<req, users, incomes, render, issued, client>>

\* A direct call of TaxService.applyTDS.
ApplyTDS ==
    /\ req.op = "applyTDS"
    /\ res = Pending
    /\ res' = Ok(200, "returned", applyTDS(req.amount))
    /\ UNCHANGED <<req, users, incomes, render, issued, client>>

\* A direct call of TaxService.checkGSTThreshold.
CheckGSTThreshold ==
    /\ req.op = "checkGSTThreshold"
    /\ res = Pending
    /\ res' = Ok(200, "returned", checkGSTThreshold(req.totalIncome))
    /\ UNCHANGED <<req, users, incomes, render, issued, client>>

GetDeductions ==
    /\ req.op = "getDeductions"
    /\ res = Pending
    /\ res' = getDeductionsResponse(req)
    /\ UNCHANGED <<req, users, incomes, render, issued, client>>

GetAdvanceTax ==
    /\ req.op = "getAdvanceTax"
    /\ res = Pending
    /\ res' = getAdvanceTaxResponse(req)
    /\ UNCHANGED <<req, users, incomes, render, issued, client>>

GetNextDueDate ==
    /\ req.op = "getNextDueDate"
    /\ res = Pending
    /\ res' = getNextDueDateResponse(req)
    /\ UNCHANGED <<req, users, incomes, render, issued, client>>

GetTaxRegimeComparison ==
    /\ req.op = "getTaxRegimeComparison"
    /\ res = Pending
    /\ res' = getTaxRegimeComparisonResponse(req)
    /\ UNCHANGED <<req, users, incomes, render, issued, client>>

GenerateInvoice ==
    /\ req.op = "generateInvoice"
    /\ res = Pending
    /\ res' = generateInvoiceResponse(req)
    /\ UNCHANGED <<req, users, incomes, render, issued, client>>

GetInvoicePreview ==
    /\ req.op = "getInvoicePreview"
    /\ res = Pending
    /\ res' = getInvoicePreviewResponse(req)
    /\ UNCHANGED <<req, users, incomes, render, issued, client>>

CalculateInvoiceAmounts ==
    /\ req.op = "calculateInvoiceAmounts"
    /\ res = Pending
    /\ res' = calculateInvoiceAmountsResponse(req)
    /\ UNCHANGED <<req, users, incomes, render, issued, client>>

\* The invoice page recomputes its preview from the form.
UpdatePreview ==
    /\ req.op = "updatePreview"
    /\ res = Pending
    /\ res' = Ok(200, "rendered", updatePreview(req.form))
    /\ UNCHANGED <<req, users, incomes, render, issued, client>>

\* The simple page renders the invoice from the form.
GenerateInvoiceHTML ==
    /\ req.op = "generateInvoiceHTML"
    /\ res = Pending
    /\ res' = Ok(200, "rendered", generateInvoiceHTML(req.form))
    /\ UNCHANGED <<req, users, incomes, render, issued, client>>

\* A page calls utils.js calculateIndianTax.
CalculateIndianTax ==
    /\ req.op = "calculateIndianTax"
    /\ res = Pending
    /\ res' = Ok(200, "returned", calculateIndianTax(req.income, req.deductions))
    /\ UNCHANGED <<req, users, incomes, render, issued, client>>

\* The simple page calls its own calculateIndianTax.
CalculateIndianTaxSimplified ==
    /\ req.op = "calculateIndianTaxSimplified"
    /\ res = Pending
    /\ res' = Ok(200, "returned",
                 calculateIndianTaxSimplified(req.income, req.deductions))
    /\ UNCHANGED <<req, users, incomes, render, issued, client>>

\* The dashboard's updateStatCards asks for the next due date.
GetNextTaxDueDate ==
    /\ req.op = "getNextTaxDueDate"
    /\ res = Pending
    /\ res' = Ok(200, "returned", getNextTaxDueDate(req.today, req.minute))
    /\ UNCHANGED <<req, users, incomes, render, issued, client>>

Next ==
    \/ CalculateIncomeTax
    \/ ApplyTDS
    \/ CheckGSTThreshold
    \/ GetDeductions
    \/ GetAdvanceTax
    \/ GetNextDueDate
    \/ GetTaxRegimeComparison
    \/ GenerateInvoice
    \/ GetInvoicePreview
    \/ CalculateInvoiceAmounts
    \/ UpdatePreview
    \/ GenerateInvoiceHTML
    \/ CalculateIndianTax
    \/ CalculateIndianTaxSimplified
    \/ GetNextTaxDueDate

Spec == Init /\ [][Next]_vars

------------------------------------------------------------------------------
(* The handlers that read or write the store.                                *)

\* TaxController.calculateTax with TaxService.calculateTax: the service's
\* throw for an unknown user becomes the 500 of the controller's catch.
calculateTaxResponse(r) ==
    IF r.userId = ""
    THEN Fail(400, "User ID is required")
    ELSE IF findById(r.userId) = {}
    THEN Fail(500, "Failed to calculate tax")
    ELSE LET user == CHOOSE u \in findById(r.userId) : TRUE
         IN  Ok(200, "Tax calculated successfully", calculateTax(user, r.today))

\* new Income({...}): the entry addIncome builds from the body.
newIncome(r) ==
    [clientName |-> r.clientName, amount |-> r.amount, tdsDeducted |-> r.tdsDeducted,
     gstApplicable |-> r.gstApplicable, userId |-> r.userId]

\* validateIncome (express-validator) and the handler's own tests of the body.
validIncomeBody(r) ==
    /\ r.amount > 0
    /\ Len(r.clientName) >= 2 /\ Len(r.clientName) <= 100
    /\ r.userId # ""

\* IncomeController.addIncome: the response.
addIncomeResponse(r) ==
    IF ~validIncomeBody(r)
    THEN Fail(400, "Validation failed")
    ELSE IF findById(r.userId) = {}
    THEN Fail(404, "User not found")
    ELSE Ok(201, "Income entry added successfully", newIncome(r))

\* The collection after addIncome with the test for the user left out.
incomesAfterAddIncomeAnyUser(r) ==
    IF validIncomeBody(r) THEN Append(incomes, newIncome(r)) ELSE incomes

\* IncomeController.addIncome: the Income collection after the handler;
\* income.save() runs only past every early return.
incomesAfterAddIncome(r) ==
    IF validIncomeBody(r) /\ findById(r.userId) # {}
    THEN Append(incomes, newIncome(r))
    ELSE incomes

\* IncomeController.getIncomeSummary: the tenths of the flagged amounts are
\* added up unrounded and the sum is rounded once.  No user is looked up.
getIncomeSummaryResponse(r) ==
    IF r.userId = ""
    THEN Fail(400, "User ID is required")
    ELSE LET mine == findIncomes(incomes, r.userId)
             flagged == SelectSeq(mine, LAMBDA income : income.tdsDeducted)
             totalIncome == SumAmounts(mine)
         IN  Ok(200, "Income summary retrieved successfully",
                [totalIncome |-> totalIncome,
                 totalEntries |-> Len(mine),
                 tdsCollected |-> Round(SumAmounts(flagged) * 10, 100),
                 gstApplicableCount |->
                     Len(SelectSeq(mine, LAMBDA income : income.gstApplicable)),
                 averageIncome |-> IF Len(mine) > 0
                                   THEN Round(totalIncome, Len(mine)) ELSE 0])

------------------------------------------------------------------------------
(* The store specification: requests arrive one after another against a     *)
(* database that keeps what addIncome saved.                                 *)

StoreUserIds == {"u1", "u2", "u404"}

\* Entries small enough to round to nothing or up, and entries that bring a
\* total to exactly 20 lakhs or one rupee past it.
StoreAmounts == {0, 5, 1000000, 1000001}

AddIncomeBodies ==
    {[op |-> "addIncome", clientName |-> "Tech Corp", amount |-> a, tdsDeducted |-> t,
      gstApplicable |-> FALSE, userId |-> u] :
        a \in StoreAmounts, t \in BOOLEAN, u \in StoreUserIds}

StoreDates == {[year |-> FirstYear, month |-> m] : m \in {7, 12}}

CalculateTaxRequests ==
    {[op |-> "calculateTax", userId |-> u, today |-> t] :
        u \in StoreUserIds \cup {""}, t \in StoreDates}

StoreInvoiceBodies ==
    {[op |-> "generateInvoice", clientName |-> "Design Studio", amount |-> 50000,
      gstApplicable |-> FALSE, tds |-> TRUE, userId |-> u,
      now |-> [ms |-> 1, year |-> FirstYear, month |-> 7, day |-> 15]] :
        u \in StoreUserIds}

GetIncomeSummaryRequests ==
    {[op |-> "getIncomeSummary", userId |-> u] : u \in StoreUserIds}

NoRequest == [op |-> "none"]

\* The entries saved since the database was opened.
addedIncomes ==
    IF Len(incomes) >= Len(SampleIncomes)
       /\ SubSeq(incomes, 1, Len(SampleIncomes)) = SampleIncomes
    THEN Len(incomes) - Len(SampleIncomes)
    ELSE Len(incomes)

\* A database that holds users already; the Income collection is empty or
\* holds the sample entries.
StoreInit ==
    /\ req = NoRequest
    /\ res = Pending
    /\ users = {SampleUser, GstUser}
    /\ incomes \in {<<>>, SampleIncomes}
    /\ render = RenderIdle
    /\ issued = NoneIssued
    /\ client = ClientIdle

StoreAddIncome ==
    /\ addedIncomes < MaxIncomes
    /\ \E r \in AddIncomeBodies :
        /\ req' = r
        /\ res' = addIncomeResponse(r)
        /\ incomes' = incomesAfterAddIncome(r)
    /\ UNCHANGED <<users, render, issued, client>>

StoreCalculateTax ==
    /\ \E r \in CalculateTaxRequests :
        /\ req' = r
        /\ res' = calculateTaxResponse(r)
    /\ UNCHANGED <<users, incomes, render, issued, client>>

StoreGenerateInvoice ==
    /\ \E r \in StoreInvoiceBodies :
        /\ req' = r
        /\ res' = generateInvoiceResponse(r)
    /\ UNCHANGED <<users, incomes, render, issued, client>>

StoreGetIncomeSummary ==
    /\ \E r \in GetIncomeSummaryRequests :
        /\ req' = r
        /\ res' = getIncomeSummaryResponse(r)
    /\ UNCHANGED <<users, incomes, render, issued, client>>

StoreNext ==
    \/ StoreAddIncome
    \/ StoreCalculateTax
    \/ StoreGenerateInvoice
    \/ StoreGetIncomeSummary

StoreSpec == StoreInit /\ [][StoreNext]_vars

------------------------------------------------------------------------------
(* InvoiceService.generateInvoice step by step: the promise, the document    *)
(* stream and its 'data' and 'end' events.                                   *)

RenderBodies ==
    {[op |-> "generateInvoice", clientName |-> "Design Studio", amount |-> a,
      gstApplicable |-> g, tds |-> t, userId |-> u,
      now |-> [ms |-> 1, year |-> FirstYear, month |-> 7, day |-> 15]] :
        a \in {0, 50000}, g \in BOOLEAN, t \in BOOLEAN, u \in {"u1", "u404"}}

\* getInvoiceData: the body with the stored user's bankDetails.
getInvoiceData(r) ==
    LET user == CHOOSE u \in findById(r.userId) : TRUE
    IN  [clientName |-> r.clientName, amount |-> r.amount,
         gstApplicable |-> r.gstApplicable, tds |-> r.tds,
         bankDetails |-> user.bankDetails]

\* What the calls of addInvoiceContent write, one chunk per call, in order.
contentOf(r) == addInvoiceContent(getInvoiceData(r), r.now)

\* What doc.end() writes behind the content.
Trailer == <<"%%EOF">>

\* The chunks joined with the newest first.
RECURSIVE bufferConcatNewestFirst(_)
bufferConcatNewestFirst(list) ==
    IF list = <<>> THEN <<>>
    ELSE bufferConcatNewestFirst(Tail(list)) \o Head(list)

\* Buffer.concat(buffers): the chunks joined in the order of the array.
RECURSIVE bufferConcat(_)
bufferConcat(list) ==
    IF list = <<>> THEN <<>>
    ELSE Head(list) \o bufferConcat(Tail(list))

\* The request passes the controller's tests and getInvoiceData finds the user.
Renderable(r) ==
    /\ r.clientName # "" /\ r.amount # 0 /\ r.userId # ""
    /\ r.amount > 0
    /\ findById(r.userId) # {}

RenderInit ==
    /\ req \in RenderBodies
    /\ res = Pending
    /\ users = {SampleUser}
    /\ incomes = SampleIncomes
    /\ render = RenderIdle
    /\ issued = NoneIssued
    /\ client = ClientIdle

\* The controller answers without calling InvoiceService.generateInvoice: a
\* validation error, or the throw of getInvoiceData caught.
RenderRefuse ==
    /\ render.pc = "idle"
    /\ res = Pending
    /\ ~Renderable(req)
    /\ res' = generateInvoiceResponse(req)
    /\ UNCHANGED <<req, users, incomes, render, issued, client>>

\* new Promise(...): the executor creates the document and attaches the
\* 'data' and 'end' handlers.
RenderStart ==
    /\ render.pc = "idle"
    /\ res = Pending
    /\ Renderable(req)
    /\ render' = [render EXCEPT !.pc = "content", !.promise = "pending"]
    /\ UNCHANGED <<req, res, users, incomes, issued, client>>

\* One call of addInvoiceContent on the document returns: its output is
\* pushed to the stream.
DocText ==
    /\ render.pc = "content"
    /\ render.written < Len(contentOf(req))
    /\ render' = [render EXCEPT
                    !.written = @ + 1,
                    !.queue = Append(@, <<contentOf(req)[render.written + 1]>>)]
    /\ UNCHANGED <<req, res, users, incomes, issued, client>>

\* One call of addInvoiceContent throws: the catch rejects; doc.end() is
\* never reached.
DocThrows ==
    /\ render.pc = "content"
    /\ render.written < Len(contentOf(req))
    /\ render' = [render EXCEPT
                    !.pc = "threw",
                    !.promise = IF @ = "pending" THEN "rejected" ELSE @,
                    !.error = IF render.promise = "pending"
                              THEN "PDF generation failed" ELSE @,
                    !.settleCalls = @ + 1]
    /\ UNCHANGED <<req, res, users, incomes, issued, client>>

\* doc.end() after addInvoiceContent returned.
DocEnd ==
    /\ render.pc = "content"
    /\ render.written = Len(contentOf(req))
    /\ render' = [render EXCEPT !.pc = "ending", !.queue = Append(@, Trailer)]
    /\ UNCHANGED <<req, res, users, incomes, issued, client>>

\* A 'data' event: buffers.push(chunk) with the oldest chunk of the stream.
\* The event loop may deliver it at any point after the push.
OnData ==
    /\ render.pc \in {"content", "ending", "threw"}
    /\ render.queue # <<>>
    /\ render' = [render EXCEPT
                    !.queue = Tail(@),
                    !.buffers = Append(@, Head(render.queue))]
    /\ UNCHANGED <<req, res, users, incomes, issued, client>>

\* The 'end' event, emitted once the stream is drained after doc.end():
\* resolve(Buffer.concat(buffers)).
OnEnd ==
    /\ render.pc = "ending"
    /\ render.queue = <<>>
    /\ render' = [render EXCEPT
                    !.pc = "closed",
                    !.promise = IF @ = "pending" THEN "resolved" ELSE @,
                    !.value = IF render.promise = "pending"
                              THEN bufferConcat(render.buffers) ELSE @,
                    !.settleCalls = @ + 1]
    /\ UNCHANGED <<req, res, users, incomes, issued, client>>

\* The controller's await returns or throws: res.send(pdfBuffer), or the 500
\* of the catch.
RenderRespond ==
    /\ res = Pending
    /\ render.promise \in {"resolved", "rejected"}
    /\ res' = IF render.promise = "resolved"
              THEN Ok(200, "application/pdf", render.value)
              ELSE Fail(500, "Failed to generate invoice")
    /\ UNCHANGED <<req, users, incomes, render, issued, client>>

RenderNext ==
    \/ RenderRefuse
    \/ RenderStart
    \/ DocText
    \/ DocThrows
    \/ DocEnd
    \/ OnData
    \/ OnEnd
    \/ RenderRespond

\* The executor runs to its end and the event loop delivers every queued
\* event and continuation.
RenderSpec == RenderInit /\ [][RenderNext]_vars /\ WF_vars(RenderNext)

------------------------------------------------------------------------------
(* Invoice numbering: previews and renders handled one after another, any   *)
(* number of them between two readings of the millisecond clock.            *)

NumberBodies(op) ==
    {[op |-> op, clientName |-> "Design Studio", amount |-> a, gstApplicable |-> g,
      tds |-> t, userId |-> u] :
        a \in {0, 50000}, g \in BOOLEAN, t \in BOOLEAN, u \in {"u1", "u404"}}

\* The request as its handler sees it: Date.now() reads the clock.
AtClock(body) ==
    [op |-> body.op, clientName |-> body.clientName, amount |-> body.amount,
     gstApplicable |-> body.gstApplicable, tds |-> body.tds, userId |-> body.userId,
     now |-> [ms |-> issued.clock, year |-> FirstYear, month |-> 7, day |-> 15]]

\* The invoice number printed in a rendered document.
numberInDocument(doc) ==
    CHOOSE n \in {invoiceNumberAt(t) : t \in 1..(MaxClock + 1)} :
        doc[2] = "Invoice Number: " \o n

NumberInit ==
    /\ req = NoRequest
    /\ res = Pending
    /\ users = {SampleUser}
    /\ incomes = SampleIncomes
    /\ render = RenderIdle
    /\ issued = NoneIssued
    /\ client = ClientIdle

\* The millisecond clock advances.
ClockTick ==
    /\ issued.clock < MaxClock
    /\ issued' = [issued EXCEPT !.clock = @ + 1]
    /\ UNCHANGED <<req, res, users, incomes, render, client>>

\* InvoiceController.getInvoicePreview handles a request.
NumberPreview ==
    /\ Len(issued.numbers) < MaxIssued
    /\ \E body \in NumberBodies("getInvoicePreview") :
        LET r == AtClock(body)
            response == getInvoicePreviewResponse(r)
        IN  /\ req' = r
            /\ res' = response
            /\ issued' = IF response.status = 200
                         THEN [issued EXCEPT
                                 !.numbers = Append(@, response.data.invoiceNumber)]
                         ELSE issued
    /\ UNCHANGED <<users, incomes, render, client>>

\* InvoiceController.generateInvoice handles a request.
NumberRender ==
    /\ Len(issued.numbers) < MaxIssued
    /\ \E body \in NumberBodies("generateInvoice") :
        LET r == AtClock(body)
            response == generateInvoiceResponse(r)
        IN  /\ req' = r
            /\ res' = response
            /\ issued' = IF response.status = 200
                         THEN [issued EXCEPT
                                 !.numbers = Append(@, numberInDocument(response.data))]
                         ELSE issued
    /\ UNCHANGED <<users, incomes, render, client>>

NumberNext ==
    \/ ClockTick
    \/ NumberPreview
    \/ NumberRender

NumberSpec == NumberInit /\ [][NumberNext]_vars

------------------------------------------------------------------------------
(* Income entries added, changed and removed.  An entry is named by its     *)
(* place in the collection at the time of the request; a place past the end *)
(* names no entry.                                                           *)

\* Income.findById(id)
findIncomeById(id) == {i \in 1..Len(incomes) : i = id}

\* incomeSchema: amount { type: Number, min: 0 }, as the update validators
\* (runValidators: true) test it.
schemaAccepts(updates) == updates.amount >= 0

\* IncomeController.updateIncome: the response.  The validators run on the
\* update before the entry is looked up; their error is the 500 of the catch.
updateIncomeResponse(r) ==
    IF ~schemaAccepts(r.updates)
    THEN Fail(500, "Failed to update income entry")
    ELSE IF findIncomeById(r.id) = {}
    THEN Fail(404, "Income entry not found")
    ELSE Ok(200, "Income entry updated successfully",
            [incomes[r.id] EXCEPT !.amount = r.updates.amount])

\* IncomeController.updateIncome: the Income collection after the handler.
incomesAfterUpdateIncome(r) ==
    IF schemaAccepts(r.updates) /\ findIncomeById(r.id) # {}
    THEN [incomes EXCEPT ![r.id].amount = r.updates.amount]
    ELSE incomes

\* IncomeController.deleteIncome: the response.
deleteIncomeResponse(r) ==
    IF findIncomeById(r.id) = {}
    THEN Fail(404, "Income entry not found")
    ELSE Ok(200, "Income entry deleted successfully", incomes[r.id])

\* IncomeController.deleteIncome: the Income collection after the handler.
incomesAfterDeleteIncome(r) ==
    IF findIncomeById(r.id) = {}
    THEN incomes
    ELSE SubSeq(incomes, 1, r.id - 1) \o SubSeq(incomes, r.id + 1, Len(incomes))

CrudAddBodies ==
    {[op |-> "addIncome", clientName |-> "Tech Corp", amount |-> a, tdsDeducted |-> t,
      gstApplicable |-> FALSE, userId |-> u] :
        a \in {0 - 1, 0, 5, 50000}, t \in BOOLEAN, u \in {"u1", "u404"}}

UpdateAmounts == {0 - 1, 0, 15}

UpdateIncomeRequests ==
    {[op |-> "updateIncome", id |-> i, updates |-> [amount |-> a]] :
        i \in 1..(MaxStored + 1), a \in UpdateAmounts}

DeleteIncomeRequests ==
    {[op |-> "deleteIncome", id |-> i] : i \in 1..(MaxStored + 1)}

\* A database whose users have no income entries (yet, or any more).
CrudInit ==
    /\ req = NoRequest
    /\ res = Pending
    /\ users = {SampleUser}
    /\ incomes = <<>>
    /\ render = RenderIdle
    /\ issued = NoneIssued
    /\ client = ClientIdle

CrudAddIncome ==
    /\ Len(incomes) < MaxStored
    /\ \E r \in CrudAddBodies :
        /\ req' = r
        /\ res' = addIncomeResponse(r)
        /\ incomes' = incomesAfterAddIncome(r)
    /\ UNCHANGED <<users, render, issued, client>>

CrudUpdateIncome ==
    /\ \E r \in UpdateIncomeRequests :
        /\ req' = r
        /\ res' = updateIncomeResponse(r)
        /\ incomes' = incomesAfterUpdateIncome(r)
    /\ UNCHANGED <<users, render, issued, client>>

CrudDeleteIncome ==
    /\ \E r \in DeleteIncomeRequests :
        /\ req' = r
        /\ res' = deleteIncomeResponse(r)
        /\ incomes' = incomesAfterDeleteIncome(r)
    /\ UNCHANGED <<users, render, issued, client>>

CrudNext ==
    \/ CrudAddIncome
    \/ CrudUpdateIncome
    \/ CrudDeleteIncome

CrudSpec == CrudInit /\ [][CrudNext]_vars

------------------------------------------------------------------------------
(* The browser: UnifiedApi, MockDataService and the invoice page, talking   *)
(* to the handlers above.                                                    *)

\* fetch as the caller sees it: the network fails, or the handler's response
\* arrives; response.ok is a status from 200 to 299.
backendOutcome(net, response) ==
    IF net = "down" THEN "failed"
    ELSE IF response.status >= 200 /\ response.status <= 299 THEN "ok"
    ELSE "failed"

\* UnifiedApi.generateInvoice falling back to the simulated PDF when the
\* request fails, as the other methods of the class do.
unifiedGenerateInvoiceWithFallback(useMockData, backend) ==
    IF useMockData
    THEN [requests |-> 0, outcome |-> "resolved", blob |-> "mock"]
    ELSE IF backend = "ok"
    THEN [requests |-> 1, outcome |-> "resolved", blob |-> "server"]
    ELSE [requests |-> 1, outcome |-> "resolved", blob |-> "mock"]

\* UnifiedApi.generateInvoice: the requests it issues, how its promise
\* settles, and the blob it resolves with.
unifiedGenerateInvoice(useMockData, backend) ==
    IF useMockData
    THEN [requests |-> 0, outcome |-> "resolved", blob |-> "mock"]
    ELSE IF backend = "ok"
    THEN [requests |-> 1, outcome |-> "resolved", blob |-> "server"]
    ELSE [requests |-> 1, outcome |-> "rejected", blob |-> "none"]

\* UnifiedApi.addIncome: the requests it issues, how its promise settles,
\* and whether addMockIncome ran.
unifiedAddIncome(useMockData, backend) ==
    IF useMockData
    THEN [requests |-> 0, outcome |-> "resolved", pushed |-> TRUE]
    ELSE IF backend = "ok"
    THEN [requests |-> 1, outcome |-> "resolved", pushed |-> FALSE]
    ELSE [requests |-> 1, outcome |-> "resolved", pushed |-> TRUE]

\* MockDataService.addMockIncome: the entry pushed to the mock list.
addMockIncome(incomeData) ==
    [clientName |-> incomeData.clientName, amount |-> incomeData.amount,
     tdsDeducted |-> incomeData.tdsDeducted,
     gstApplicable |-> incomeData.gstApplicable, userId |-> "demo-user-123"]

\* The invoice form as submitted.  Its GST box is named gst, so the body
\* carries no gstApplicable.
InvoiceForms ==
    {[clientName |-> c, amount |-> a, description |-> "Consulting", tds |-> t] :
        c \in {"", "Design Studio"}, a \in {0, 50000}, t \in BOOLEAN}

\* validateForm with the rules of handleInvoiceSubmit.
validInvoiceForm(form) ==
    /\ form.clientName # ""
    /\ form.amount >= 1
    /\ form.description # ""

\* getCurrentUserId(): the stored id, or the built-in default, which may name
\* no user of this database.
CurrentUserIds == {"u1", "u404"}

\* Math.floor(Math.random() * 1000)
RandomParts == {7, 42}

\* generateInvoiceNumber() in July of FirstYear.
generateInvoiceNumber(random) ==
    "INV-" \o ToStr(FirstYear) \o "07-" \o Pad3(random)

\* The body handleInvoiceSubmit posts, as the server reads it.
invoiceRequestOf(form, userId) ==
    [op |-> "generateInvoice", clientName |-> form.clientName, amount |-> form.amount,
     gstApplicable |-> FALSE, tds |-> form.tds, userId |-> userId,
     now |-> [ms |-> 1, year |-> FirstYear, month |-> 7, day |-> 15]]

ClientInit ==
    /\ req = NoRequest
    /\ res = Pending
    /\ users = {SampleUser}
    /\ incomes = SampleIncomes
    /\ render = RenderIdle
    /\ issued = NoneIssued
    /\ client = ClientIdle

\* UnifiedApi.checkBackendAvailability settles.
HealthCheck ==
    /\ ~client.checked
    /\ \E up \in BOOLEAN :
        client' = [client EXCEPT !.checked = TRUE, !.useMockData = ~up]
    /\ UNCHANGED <<req, res, users, incomes, render, issued>>

\* handleInvoiceSubmit, with the call of UnifiedApi.generateInvoice and the
\* server's handling of the request it sends.
SubmitInvoice ==
    /\ Len(client.invoiceList) < MaxHistory
    /\ \E form \in InvoiceForms, userId \in CurrentUserIds,
          random \in RandomParts, net \in {"up", "down"} :
        IF ~validInvoiceForm(form)
        THEN /\ client' = [client EXCEPT !.lastCall = "generateInvoice",
                                         !.requests = 0, !.backend = "none",
                                         !.outcome = "invalid"]
             /\ UNCHANGED <<req, res>>
        ELSE LET r == invoiceRequestOf(form, userId)
                 response == generateInvoiceResponse(r)
                 backend == IF client.useMockData THEN "none"
                            ELSE backendOutcome(net, response)
                 call == unifiedGenerateInvoice(client.useMockData, backend)
                 invoiceNumber == generateInvoiceNumber(random)
                 newInvoice == [clientName |-> form.clientName,
                                amount |-> form.amount,
                                invoiceNumber |-> invoiceNumber,
                                status |-> "sent"]
             IN  /\ client' =
                        IF call.outcome = "resolved"
                        THEN [client EXCEPT
                                !.lastCall = "generateInvoice",
                                !.requests = call.requests,
                                !.backend = backend,
                                !.outcome = "resolved",
                                !.downloads = Append(@, "invoice-" \o invoiceNumber
                                                        \o ".pdf"),
                                !.invoiceList = <<newInvoice>> \o @]
                        ELSE [client EXCEPT
                                !.lastCall = "generateInvoice",
                                !.requests = call.requests,
                                !.backend = backend,
                                !.outcome = "rejected"]
                 /\ IF ~client.useMockData /\ net = "up"
                    THEN req' = r /\ res' = response
                    ELSE UNCHANGED <<req, res>>
    /\ UNCHANGED <<users, incomes, render, issued>>

InvoicePageNext ==
    \/ HealthCheck
    \/ SubmitInvoice

InvoicePageSpec == ClientInit /\ [][InvoicePageNext]_vars

ClientIncomeData ==
    {[op |-> "addIncome", clientName |-> "Tech Corp", amount |-> a,
      tdsDeducted |-> FALSE, gstApplicable |-> FALSE, userId |-> u] :
        a \in {0, 5000}, u \in CurrentUserIds}

\* A call of UnifiedApi.addIncome, with the server's handling of the request
\* it sends.
ClientAddIncome ==
    /\ Len(client.mockIncome) < Len(MockIncome) + MaxClientAdds
    /\ Len(incomes) < Len(SampleIncomes) + MaxClientAdds
    /\ \E r \in ClientIncomeData, net \in {"up", "down"} :
        LET response == addIncomeResponse(r)
            backend == IF client.useMockData THEN "none"
                       ELSE backendOutcome(net, response)
            call == unifiedAddIncome(client.useMockData, backend)
        IN  /\ client' = [client EXCEPT
                            !.lastCall = "addIncome",
                            !.requests = call.requests,
                            !.backend = backend,
                            !.outcome = call.outcome,
                            !.mockIncome = IF call.pushed
                                           THEN Append(@, addMockIncome(r)) ELSE @]
            /\ IF ~client.useMockData /\ net = "up"
               THEN /\ req' = r
                    /\ res' = response
                    /\ incomes' = incomesAfterAddIncome(r)
               ELSE UNCHANGED <<req, res, incomes>>
    /\ UNCHANGED <<users, render, issued>>

IncomeClientNext ==
    \/ HealthCheck
    \/ ClientAddIncome

IncomeClientSpec == ClientInit /\ [][IncomeClientNext]_vars

Done(op) == req.op = op /\ res.status = 200


------------------------------------------------------------------------------
(* Properties of calculateIncomeTax.                                         *)

\* C1: at the slab reference points calculateIncomeTax returns 0 for income
\* 0, 0 for 250000, 12500 for 500000, 75000 for 1000000, 187500 for 1500000
\* and 337500 for 2000000.
C1_ReferencePoints ==
    Done("calculateIncomeTax") =>
        /\ req.totalIncome = 0 => res.data = 0
        /\ req.totalIncome = 250000 => res.data = 0
        /\ req.totalIncome = 500000 => res.data = 12500
        /\ req.totalIncome = 1000000 => res.data = 75000
        /\ req.totalIncome = 1500000 => res.data = 187500
        /\ req.totalIncome = 2000000 => res.data = 337500

C1_Witness == Done("calculateIncomeTax") /\ req.totalIncome = 2000000

\* C2: calculateIncomeTax is monotonic non-decreasing after rounding: the tax
\* returned for an income b is at least the tax of every income a with
\* 0 <= a <= b.
C2_Monotonic ==
    Done("calculateIncomeTax") =>
        \A a \in Incomes :
            (0 <= a /\ a <= req.totalIncome) => calculateIncomeTax(a) <= res.data

\* An income whose tax is rounded up (0.5 -> 1) right above one rounded down.
C2_Witness ==
    /\ Done("calculateIncomeTax")
    /\ req.totalIncome = 250010
    /\ res.data = 1
    /\ calculateIncomeTax(250009) = 0

NextSlab(i) == IF i < Len(Slabs) THEN Slabs[i + 1] ELSE TopSlab

C3_Offsets == <<0, 12500, 37500, 75000, 125000, 187500>>

\* C3: no jump at a slab boundary b: the lower band's formula at b gives
\* exactly the fixed offset of the next band (0, 12500, 37500, 75000, 125000,
\* 187500), and calculateIncomeTax(b + 1) - calculateIncomeTax(b) is at most
\* one rupee.
C3_NoJump ==
    (Done("calculateIncomeTax") /\ req.totalIncome \in Boundaries) =>
        \E i \in 1..Len(Slabs) :
            /\ Slabs[i].upto = req.totalIncome
            /\ SlabTax100(Slabs[i], req.totalIncome) = 100 * NextSlab(i).base
            /\ NextSlab(i).base = C3_Offsets[i]
            /\ res.data = C3_Offsets[i]
            /\ calculateIncomeTax(req.totalIncome + 1) - res.data <= 1

C3_Witness ==
    /\ Done("calculateIncomeTax")
    /\ req.totalIncome = 1250000
    /\ res.data = 125000

------------------------------------------------------------------------------
(* Properties of calculateDeductions.                                        *)

CappedSections == {"80C - PPF", "80C - ELSS", "80C - Life Insurance"}

IsCapped(line) == line.section \in CappedSections

IsBusiness(line) == line.section = "Business Expense"

IsHomeOffice(line) == line.section = "Home Office"

Amounts(lines) == [i \in 1..Len(lines) |-> lines[i].amount]

Sections(lines) == [i \in 1..Len(lines) |-> lines[i].section]

ReadmeExample ==
    /\ Done("getDeductions")
    /\ req.income = 450000
    /\ req.expenses = <<[category |-> "laptop", amount |-> 40000],
                        [category |-> "internet", amount |-> 12000]>>

\* C4 as stated: for income 450000 and expenses {laptop: 40000, internet:
\* 12000} only the PPF line of 50000 is in the capped bucket, and
\* totalDeductions = 214500, taxableIncome = 235500, possibleSavings = 10000.
C4_Original ==
    ReadmeExample =>
        /\ Amounts(SelectSeq(res.data.recommendedDeductions, IsCapped)) = <<50000>>
        /\ SumAmounts(SelectSeq(res.data.recommendedDeductions, IsBusiness)) = 52000
        /\ Amounts(SelectSeq(res.data.recommendedDeductions, IsHomeOffice)) = <<112500>>
        /\ res.data.totalDeductions = 214500
        /\ res.data.taxableIncome = 235500
        /\ res.data.possibleSavings = 10000

\* C4 (amended): for income 450000 and expenses {laptop: 40000, internet:
\* 12000} the capped bucket holds the PPF line of 50000 and the ELSS line of
\* 60000 (450000 > 400000), the business-expense lines total 52000, the
\* home-office line is 112500, and totalDeductions = 274500, taxableIncome =
\* 175500, possibleSavings = 10000.
C4_ReadmeExample ==
    ReadmeExample =>
        /\ Sections(SelectSeq(res.data.recommendedDeductions, IsCapped))
               = <<"80C - PPF", "80C - ELSS">>
        /\ Amounts(SelectSeq(res.data.recommendedDeductions, IsCapped)) = <<50000, 60000>>
        /\ SumAmounts(SelectSeq(res.data.recommendedDeductions, IsBusiness)) = 52000
        /\ Amounts(SelectSeq(res.data.recommendedDeductions, IsHomeOffice)) = <<112500>>
        /\ res.data.totalDeductions = 274500
        /\ res.data.taxableIncome = 175500
        /\ res.data.possibleSavings = 10000

C4_Witness == ReadmeExample /\ res.data.totalDeductions = 274500

\* C5: the capped (80C) bucket is filled greedily by income threshold: no
\* capped line up to 300000; a PPF line of 50000 above 300000; also an ELSS
\* line of 60000 above 400000; also an insurance line of 40000 above 500000;
\* every line fits the remaining cap, so the capped lines never sum to more
\* than 150000.
C5_CappedBucket ==
    Done("getDeductions") =>
        LET capped == SelectSeq(res.data.recommendedDeductions, IsCapped)
        IN  /\ Sections(capped) =
                   (IF req.income > 300000 THEN <<"80C - PPF">> ELSE <<>>)
                   \o (IF req.income > 400000 THEN <<"80C - ELSS">> ELSE <<>>)
                   \o (IF req.income > 500000 THEN <<"80C - Life Insurance">> ELSE <<>>)
            /\ Amounts(capped) =
                   (IF req.income > 300000 THEN <<50000>> ELSE <<>>)
                   \o (IF req.income > 400000 THEN <<60000>> ELSE <<>>)
                   \o (IF req.income > 500000 THEN <<40000>> ELSE <<>>)
            /\ \A n \in 1..Len(capped) : SumAmounts(SubSeq(capped, 1, n)) <= 150000
            /\ SumAmounts(capped) <= 150000

C5_Witness ==
    /\ Done("getDeductions")
    /\ req.income = 500001
    /\ SumAmounts(SelectSeq(res.data.recommendedDeductions, IsCapped)) = 150000

\* C6: outside the capped bucket nothing is capped: every expense entry with
\* amount > 0 gives exactly one business-expense line with its full amount,
\* an entry with amount <= 0 gives none, and exactly one home-office line of
\* round(income * 0.25) follows them as the last line.
C6_UncappedLines ==
    Done("getDeductions") =>
        LET lines == res.data.recommendedDeductions
            business == SelectSeq(lines, IsBusiness)
            positive == {i \in 1..Len(req.expenses) : req.expenses[i].amount > 0}
            lineOf(i) == {k \in 1..Len(lines) :
                             /\ IsBusiness(lines[k])
                             /\ lines[k].description =
                                    req.expenses[i].category \o " - business expense"}
        IN  /\ Len(business) = Cardinality(positive)
            /\ \A i \in 1..Len(req.expenses) :
                   IF i \in positive
                   THEN /\ Cardinality(lineOf(i)) = 1
                        /\ \A k \in lineOf(i) : lines[k].amount = req.expenses[i].amount
                   ELSE lineOf(i) = {}
            /\ Cardinality({k \in 1..Len(lines) : IsHomeOffice(lines[k])}) = 1
            /\ IsHomeOffice(lines[Len(lines)])
            /\ lines[Len(lines)].amount = (2 * (req.income * 25) + 100) \div 200

\* One entry kept, one dropped, and a home-office amount rounded up from .5.
C6_Witness ==
    /\ Done("getDeductions")
    /\ req.income = 2
    /\ Len(req.expenses) = 2
    /\ req.expenses[1].amount = 0
    /\ req.expenses[2].amount = 40000
    /\ Len(res.data.recommendedDeductions) = 2
    /\ res.data.recommendedDeductions[2].amount = 1

\* C7: in every plan totalDeductions is the sum of the amounts of all lines,
\* taxableIncome = max(0, income - totalDeductions) and possibleSavings =
\* calculateIncomeTax(income) - calculateIncomeTax(taxableIncome).
C7_PlanTotals ==
    Done("getDeductions") =>
        /\ res.data.totalDeductions = SumAmounts(res.data.recommendedDeductions)
        /\ res.data.taxableIncome =
               (IF req.income - res.data.totalDeductions > 0
                THEN req.income - res.data.totalDeductions ELSE 0)
        /\ res.data.possibleSavings =
               calculateIncomeTax(req.income) - calculateIncomeTax(res.data.taxableIncome)

\* A plan with a negative expense entry and savings on a positive taxable
\* income.
C7_Witness ==
    /\ Done("getDeductions")
    /\ \E i \in 1..Len(req.expenses) : req.expenses[i].amount < 0
    /\ res.data.taxableIncome > 250000
    /\ res.data.possibleSavings > 0

------------------------------------------------------------------------------
(* Properties of the invoice amounts.                                        *)

InDocument(doc, text) == \E k \in 1..Len(doc) : doc[k] = text

\* C8: for every accepted invoice input totalAmount = amount + (gstApplicable
\* ? round(amount * 0.18) : 0) - (tds ? round(amount * 0.10) : 0), both taxes
\* taken on the base amount; amount 50000 with both flags gives tdsAmount
\* 5000, gstAmount 9000 and totalAmount 54000.
C8_TotalAmount ==
    LET gst == IF req.gstApplicable THEN (2 * (req.amount * 18) + 100) \div 200 ELSE 0
        tdsAmt == IF req.tds THEN (2 * (req.amount * 10) + 100) \div 200 ELSE 0
    IN  /\ Done("getInvoicePreview") =>
              /\ res.data.totalAmount = req.amount + gst - tdsAmt
              /\ res.data.gstAmount = gst
              /\ res.data.tdsAmount = tdsAmt
              /\ (req.amount = 50000 /\ req.gstApplicable /\ req.tds) =>
                     /\ res.data.tdsAmount = 5000
                     /\ res.data.gstAmount = 9000
                     /\ res.data.totalAmount = 54000
        /\ Done("generateInvoice") =>
              /\ InDocument(res.data, "Total Amount: Rs"
                                      \o toLocaleStringIN(req.amount + gst - tdsAmt))
              /\ (req.amount = 50000 /\ req.gstApplicable /\ req.tds) =>
                     /\ InDocument(res.data, "TDS (10%): Rs5,000")
                     /\ InDocument(res.data, "GST (18%): Rs9,000")
                     /\ InDocument(res.data, "Total Amount: Rs54,000")

C8_Witness ==
    /\ Done("getInvoicePreview")
    /\ req.amount = 50000 /\ req.gstApplicable /\ req.tds
    /\ res.data.totalAmount = 54000

\* C9: for every input (amount, gstApplicable, tds) the total printed by the
\* PDF path, the totalAmount of the JSON preview and the totalAmount of
\* calculateInvoiceAmounts are equal, and so are their TDS and GST amounts.
C9_PathsAgree ==
    LET p == previewAmounts(req.amount, req.gstApplicable, req.tds)
        c == calculateAmounts(req.amount, req.gstApplicable, req.tds)
        pdf == pdfTotalAmount(req.amount, req.gstApplicable, req.tds)
    IN  /\ Done("generateInvoice") =>
              /\ InDocument(res.data, "Total Amount: Rs" \o toLocaleStringIN(p.totalAmount))
              /\ InDocument(res.data, "Total Amount: Rs" \o toLocaleStringIN(c.totalAmount))
              /\ req.tds =>
                     /\ InDocument(res.data, "TDS (10%): Rs" \o toLocaleStringIN(p.tdsAmount))
                     /\ InDocument(res.data, "TDS (10%): Rs" \o toLocaleStringIN(c.tdsAmount))
              /\ req.gstApplicable =>
                     /\ InDocument(res.data, "GST (18%): Rs" \o toLocaleStringIN(p.gstAmount))
                     /\ InDocument(res.data, "GST (18%): Rs" \o toLocaleStringIN(c.gstAmount))
        /\ Done("getInvoicePreview") =>
              /\ res.data.totalAmount = pdf
              /\ res.data.totalAmount = c.totalAmount
              /\ res.data.tdsAmount = c.tdsAmount
              /\ res.data.gstAmount = c.gstAmount
        /\ Done("calculateInvoiceAmounts") =>
              /\ res.data.totalAmount = pdf
              /\ res.data.totalAmount = p.totalAmount
              /\ res.data.tdsAmount = p.tdsAmount
              /\ res.data.gstAmount = p.gstAmount

\* A rendered invoice whose TDS and GST both round up from a tie.
C9_Witness ==
    /\ Done("generateInvoice")
    /\ req.amount = 25 /\ req.gstApplicable /\ req.tds
    /\ InDocument(res.data, "Total Amount: Rs27")

------------------------------------------------------------------------------
(* Properties of getAdvanceTaxDue.                                           *)

C11_SameLabel ==
    /\ Done("getNextDueDate") =>
           \A estimatedTax \in {0, 10000, 45000} :
               res.data.nextAdvanceTaxDue =
                   getAdvanceTaxDue(estimatedTax, req.today).nextDueDate
    /\ (req.op = "getNextDueDate" /\ res # Pending /\ req.userId # "") =>
           res.status = 200

C11_Witness ==
    /\ Done("getNextDueDate")
    /\ req.userId = "u404"
    /\ findById(req.userId) = {}
    /\ req.today.month = 9
    /\ res.data.nextAdvanceTaxDue = "December 15, " \o ToStr(req.today.year)

\* The cumulative share of the documented schedule that falls due on the
\* date a label names: 15% by June 15, 45% by September 15, 75% by December
\* 15, 100% by March 15.
ScheduleShare(label, today) ==
    IF label = "June 15, " \o ToStr(today.year) THEN 15
    ELSE IF label = "September 15, " \o ToStr(today.year) THEN 45
    ELSE IF label = "December 15, " \o ToStr(today.year) THEN 75
    ELSE 100

\* C12: the amount returned together with a next due date is the documented
\* cumulative share of the estimated tax for that date: 15% with June 15, 45%
\* with September 15, 75% with December 15, 100% with March 15.
C12_Schedule ==
    Done("getAdvanceTax") =>
        LET d == res.data
        IN  d.amountDue =
                (2 * (d.estimatedTax * ScheduleShare(d.nextDueDate, req.today)) + 100)
                    \div 200

\* C13: getTaxRegimeComparison reports calculateIncomeTax(income) as the new
\* regime's tax, round(1.04 * T(max(0, income - 50000))) as the old regime's
\* (T: 0% to 250000, 5% to 500000, 20% to 1000000, 30% above), recommends
\* "New Regime" exactly when the new tax is <= the old one, and reports the
\* absolute difference as savings; income 800000 gives 45000, 65000, "New
\* Regime" and 20000.
C13_RegimeComparison ==
    Done("getTaxRegimeComparison") =>
        LET d == res.data
            t == IF req.income - 50000 > 0 THEN req.income - 50000 ELSE 0
            \* T(t) in twentieths of a rupee
            T20 == IF t <= 250000 THEN 0
                   ELSE IF t <= 500000 THEN t - 250000
                   ELSE IF t <= 1000000 THEN 250000 + 4 * (t - 500000)
                   ELSE 2250000 + 6 * (t - 1000000)
            \* 1.04 * T(t) - oldRegime.tax, in five-hundredths of a rupee
            off == 26 * T20 - 500 * d.oldRegime.tax
        IN  /\ d.newRegime.tax = calculateIncomeTax(req.income)
            /\ 0 - 250 <= off /\ off < 250
            /\ d.recommended \in {"New Regime", "Old Regime"}
            /\ d.recommended = "New Regime" <=> d.newRegime.tax <= d.oldRegime.tax
            /\ d.savings >= 0
            /\ d.savings \in {d.newRegime.tax - d.oldRegime.tax,
                              d.oldRegime.tax - d.newRegime.tax}
            /\ req.income = 800000 =>
                   /\ d.newRegime.tax = 45000
                   /\ d.oldRegime.tax = 65000
                   /\ d.recommended = "New Regime"
                   /\ d.savings = 20000

\* A tie: both regimes charge the same and the new regime is recommended.
C13_Witness ==
    /\ Done("getTaxRegimeComparison")
    /\ req.income = 250000
    /\ res.data.newRegime.tax = res.data.oldRegime.tax
    /\ res.data.recommended = "New Regime"
    /\ res.data.savings = 0

\* C16: applyTDS(amount) is amount * 0.10 rounded to the nearest rupee, a
\* half rounding up, for amounts >= 0; applyTDS(50000) = 5000.
C16_ApplyTDS ==
    (Done("applyTDS") /\ req.amount >= 0) =>
        /\ 0 - 5 < 10 * res.data - req.amount
        /\ 10 * res.data - req.amount <= 5
        /\ req.amount = 50000 => res.data = 5000

\* A half: 15 * 0.10 = 1.5 becomes 2.
C16_Witness ==
    /\ Done("applyTDS")
    /\ req.amount = 15
    /\ res.data = 2

\* C17: checkGSTThreshold(totalIncome) is true exactly when totalIncome >
\* 2000000: false at 2000000, true at 2000001.
C17_Threshold ==
    Done("checkGSTThreshold") =>
        /\ res.data = (req.totalIncome > 2000000)
        /\ req.totalIncome = 2000000 => res.data = FALSE
        /\ req.totalIncome = 2000001 => res.data = TRUE

C17_Witness ==
    /\ Done("checkGSTThreshold")
    /\ req.totalIncome = 2000000
    /\ res.data = FALSE

\* The request lacks a field its handler requires, or carries a figure that
\* is missing or not positive.
InvalidInput ==
    \/ /\ req.op \in {"generateInvoice", "getInvoicePreview"}
       /\ req.amount <= 0 \/ req.clientName = "" \/ req.userId = ""
    \/ /\ req.op = "calculateInvoiceAmounts"
       /\ req.amount <= 0
    \/ /\ req.op \in {"getDeductions", "getTaxRegimeComparison"}
       /\ req.income <= 0

\* C18: generateInvoice, getInvoicePreview and calculateInvoiceAmounts answer
\* an invalid amount (or a missing clientName or userId) with an error, and
\* getDeductions and getTaxRegimeComparison an invalid income; the error
\* response carries no result and the store is as it was.
C18_Rejected ==
    (InvalidInput /\ res # Pending) =>
        /\ res.status = 400
        /\ res.success = FALSE
        /\ DOMAIN res = {"status", "success", "message"}
        /\ users = {SampleUser}
        /\ incomes = SampleIncomes

C18_Witness ==
    /\ req.op = "calculateInvoiceAmounts"
    /\ req.amount = 0 - 1
    /\ res = Fail(400, "Valid amount is required")

\* The stored entries of the user a request names.
UserRows == {i \in 1..Len(incomes) : incomes[i].userId = req.userId}

\* The amounts of the entries rows, added up.
RECURSIVE SumOfAmounts(_)
SumOfAmounts(rows) ==
    IF rows = {} THEN 0
    ELSE LET i == CHOOSE k \in rows : TRUE
         IN  incomes[i].amount + SumOfAmounts(rows \ {i})

\* A tenth of each amount of the entries rows, rounded entry by entry (a half
\* up), added up.
RECURSIVE SumOfTenths(_)
SumOfTenths(rows) ==
    IF rows = {} THEN 0
    ELSE LET i == CHOOSE k \in rows : TRUE
         IN  ((incomes[i].amount + 5) \div 10) + SumOfTenths(rows \ {i})

\* C14: calculateTax reports totalIncome as the sum of the user's amounts,
\* tdsCollected as the sum of applyTDS(amount) over the entries with
\* tdsDeducted set, incomeTax as calculateIncomeTax(totalIncome), and
\* finalTaxPayable as max(0, incomeTax - tdsCollected), which is never
\* negative.
C14_Summary ==
    Done("calculateTax") =>
        LET d == res.data
        IN  /\ d.totalIncome = SumOfAmounts(UserRows)
            /\ d.tdsCollected = SumOfTenths({i \in UserRows : incomes[i].tdsDeducted})
            /\ d.incomeTax = calculateIncomeTax(d.totalIncome)
            /\ d.finalTaxPayable >= 0
            /\ d.finalTaxPayable >= d.incomeTax - d.tdsCollected
            /\ d.finalTaxPayable \in {0, d.incomeTax - d.tdsCollected}

\* More was deducted at source than the tax comes to, and one of the user's
\* entries had nothing deducted.
C14_Witness ==
    /\ Done("calculateTax")
    /\ res.data.tdsCollected > res.data.incomeTax
    /\ res.data.finalTaxPayable = 0
    /\ \E i \in UserRows : ~incomes[i].tdsDeducted
    /\ \E i \in UserRows : incomes[i].tdsDeducted

\* C15: gstRequired is true exactly when the user is registered for GST and
\* totalIncome > 2000000: false for an unregistered user whatever the income,
\* false at exactly 2000000.
C15_GstRequired ==
    Done("calculateTax") =>
        \A u \in users :
            u.id = req.userId =>
                /\ res.data.gstRequired \in BOOLEAN
                /\ res.data.gstRequired <=>
                       (u.gstRegistered /\ res.data.totalIncome > 2000000)
                /\ ~u.gstRegistered => res.data.gstRequired = FALSE
                /\ res.data.totalIncome = 2000000 => res.data.gstRequired = FALSE

C15_Witness ==
    /\ Done("calculateTax")
    /\ req.userId = GstUser.id
    /\ res.data.totalIncome = 2000001
    /\ res.data.gstRequired = TRUE

\* The request names a user the store does not hold.
UnknownUser(r) ==
    /\ r.op \in {"calculateTax", "generateInvoice", "addIncome"}
    /\ r.userId # ""
    /\ \A u \in users : u.id # r.userId

\* C19: for a userId that names no stored user, calculateTax, generateInvoice
\* and addIncome answer with an error that carries no summary, document or
\* entry, and the step that handles the request leaves the Income and User
\* collections as they were.
C19_UnknownUser ==
    /\ [](UnknownUser(req) =>
            /\ res.success = FALSE
            /\ res.status \in {400, 404, 500}
            /\ DOMAIN res = {"status", "success", "message"})
    /\ [][UnknownUser(req') => (incomes' = incomes /\ users' = users)]_vars

C19_Witness ==
    /\ req.op = "addIncome"
    /\ req.userId = "u404"
    /\ req.amount = 1000000
    /\ res = Fail(404, "User not found")
    /\ Len(incomes) = Len(SampleIncomes) + 1

\* The whole document of the request: every chunk addInvoiceContent wrote,
\* then what doc.end() wrote.
WholeDocument == contentOf(req) \o Trailer

\* C20: the promise of InvoiceService.generateInvoice settles exactly once.
\* It resolves only after the document's 'end' event, with the concatenation,
\* in emission order, of every chunk emitted, so never with a part of the
\* document; it rejects with "PDF generation failed" when writing the content
\* throws; and after a failure the HTTP caller gets an error response, not the
\* PDF bytes.
C20_SettlesOnce ==
    /\ [](render.promise = "resolved" =>
            /\ render.pc = "closed"
            /\ render.queue = <<>>
            /\ render.value = WholeDocument)
    /\ [](render.promise = "rejected" =>
            /\ render.pc = "threw"
            /\ render.error = "PDF generation failed"
            /\ render.value = <<>>)
    /\ [](render.settleCalls <= 1)
    /\ [](render.promise \in {"resolved", "rejected"} <=> render.settleCalls = 1)
    /\ [][render.promise \in {"resolved", "rejected"} =>
            /\ render'.promise = render.promise
            /\ render'.value = render.value
            /\ render'.error = render.error]_vars
    /\ [](res.status = 200 =>
            render.promise = "resolved" /\ res.data = WholeDocument)
    /\ []((render.promise = "rejected" /\ res # Pending) =>
            res = Fail(500, "Failed to generate invoice"))
    /\ (render.promise = "pending") ~> (render.promise \in {"resolved", "rejected"})
    /\ (render.promise = "pending") ~> (res # Pending)

\* The document was delivered in several chunks, some of them before doc.end(),
\* and the caller got all of it.
C20_Witness ==
    /\ render.promise = "resolved"
    /\ Len(render.buffers) = Len(contentOf(req)) + 1
    /\ res.status = 200
    /\ res.data = bufferConcat(render.buffers)
    /\ req.tds /\ req.gstApplicable

\* C21: any two invoice renders or previews, two handled within the same
\* clock millisecond included, receive different invoiceNumber values.
C21_UniqueNumbers ==
    \A i, j \in 1..Len(issued.numbers) :
        i # j => issued.numbers[i] # issued.numbers[j]

\* C22: after any sequence of addIncome, updateIncome and deleteIncome
\* requests every stored income entry has an amount > 0; a request that would
\* store an amount <= 0 is rejected and leaves the store unchanged.
C22_PositiveAmounts ==
    /\ [](\A i \in 1..Len(incomes) : incomes[i].amount > 0)
    /\ [][(/\ req'.op \in {"addIncome", "updateIncome"}
           /\ (IF req'.op = "addIncome" THEN req'.amount ELSE req'.updates.amount) <= 0)
          => (incomes' = incomes /\ res'.success = FALSE)]_vars

\* C23: for every set of a user's income records, the tdsCollected that
\* getIncomeSummary reports equals the tdsCollected that
\* TaxService.calculateTax reports.
C23_SameTdsCollected ==
    Done("getIncomeSummary") =>
        \A u \in users :
            u.id = req.userId =>
                res.data.tdsCollected =
                    calculateTax(u, [year |-> FirstYear, month |-> 7]).tdsCollected

\* C24: when the backend is in use and the generateInvoice request fails,
\* UnifiedApi.generateInvoice has issued exactly one request and rejects, and
\* the invoice page adds no entry to its history and downloads no file.
C24_NoRetryNoSubstitute ==
    [][(/\ client'.lastCall = "generateInvoice"
        /\ ~client.useMockData
        /\ client'.backend = "failed")
       => /\ client'.requests = 1
          /\ client'.outcome = "rejected"
          /\ client'.invoiceList = client.invoiceList
          /\ client'.downloads = client.downloads]_vars

\* A failed generation after a successful one: the history still holds the
\* one invoice.
C24_Witness ==
    /\ client.lastCall = "generateInvoice"
    /\ ~client.useMockData
    /\ client.backend = "failed"
    /\ client.outcome = "rejected"
    /\ res = Fail(500, "Failed to generate invoice")
    /\ Len(client.invoiceList) = 1
    /\ Len(client.downloads) = 1

\* C30: when useMockData is false and the backend addIncome call fails,
\* UnifiedApi.addIncome leaves the mock income list unchanged and does not
\* report success to its caller.
C30_NotRecorded ==
    [][(/\ client'.lastCall = "addIncome"
        /\ ~client.useMockData
        /\ client'.backend = "failed")
       => /\ client'.mockIncome = client.mockIncome
          /\ client'.outcome # "resolved"]_vars

\* The place of a line in a document, 0 when the document lacks it.
IndexOf(doc, text) ==
    IF InDocument(doc, text) THEN CHOOSE k \in 1..Len(doc) : doc[k] = text ELSE 0

\* C25: the invoice document lists the basic amount, then the TDS lines if
\* and only if tds is set, then the GST lines if and only if gstApplicable is
\* set, then the total line, in this order; its footer holds the TDS note if
\* and only if tds is set and the GST note if and only if gstApplicable is
\* set.
C25_DocumentOrder ==
    Done("generateInvoice") =>
        LET doc == res.data
            a == req.amount
            tdsAmount == (2 * (a * 10) + 100) \div 200
            gstAmount == (2 * (a * 18) + 100) \div 200
            Rs(n) == "Rs" \o toLocaleStringIN(n)
            basic == IndexOf(doc, "Basic Amount: " \o Rs(a))
            tdsLines == IF req.tds THEN 2 ELSE 0
            gstLines == IF req.gstApplicable THEN 2 ELSE 0
            total == basic + tdsLines + gstLines + 1
            notes == IndexOf(doc, "Notes:")
            tdsNote == "TDS (Tax Deducted at Source) has been deducted as per Indian tax laws."
            gstNote == "GST (Goods and Services Tax) is applicable as per current rates."
        IN  /\ basic > 0
            /\ doc[basic - 1] = "Amount Details:"
            /\ req.tds =>
                   /\ doc[basic + 1] = "TDS (10%): " \o Rs(tdsAmount)
                   /\ doc[basic + 2] = "Net Amount (after TDS): " \o Rs(a - tdsAmount)
            /\ req.gstApplicable =>
                   /\ doc[basic + tdsLines + 1] = "GST (18%): " \o Rs(gstAmount)
                   /\ doc[basic + tdsLines + 2] =
                          "Total Amount (with GST): " \o Rs(a + gstAmount)
            /\ \E n \in {a, a + gstAmount, a - tdsAmount, a + gstAmount - tdsAmount} :
                   doc[total] = "Total Amount: " \o Rs(n)
            /\ doc[total + 1] = "Payment Details:"
            /\ notes > total
            /\ InDocument(doc, tdsNote) <=> req.tds
            /\ InDocument(doc, gstNote) <=> req.gstApplicable
            /\ req.tds => doc[notes + 1] = tdsNote
            /\ req.gstApplicable => doc[notes + 1 + (tdsLines \div 2)] = gstNote
            /\ Len(doc) = notes + 1 + (tdsLines \div 2) + (gstLines \div 2)

C25_Witness ==
    /\ Done("generateInvoice")
    /\ req.tds /\ req.gstApplicable
    /\ req.amount = 50000
    /\ IndexOf(res.data, "TDS (10%): Rs5,000") + 2 = IndexOf(res.data, "GST (18%): Rs9,000")
    /\ IndexOf(res.data, "GST (18%): Rs9,000") + 2 = IndexOf(res.data, "Total Amount: Rs54,000")

\* C26: for every income > 0 and every expense mapping, calculateDeductions
\* returns possibleSavings >= 0, 0 <= taxableIncome <= income, and
\* taxWithDeductions = calculateIncomeTax(income) - possibleSavings.
C26_SavingsAndTaxable ==
    (Done("getDeductions") /\ req.income > 0) =>
        /\ res.data.possibleSavings >= 0
        /\ res.data.taxableIncome >= 0
        /\ res.data.taxableIncome <= req.income
        /\ res.data.taxWithDeductions =
               calculateIncomeTax(req.income) - res.data.possibleSavings

\* Deductions that lower the tax: a positive saving on a taxable income
\* strictly between 0 and the income.
C26_Witness ==
    /\ Done("getDeductions")
    /\ req.income > 0
    /\ res.data.totalDeductions > 0
    /\ res.data.taxableIncome > 0
    /\ res.data.taxableIncome < req.income
    /\ res.data.possibleSavings > 0

\* C27: for every whole-rupee amount > 0 and every combination of the TDS and
\* GST boxes, the total the browser shows (updatePreview, generateInvoiceHTML)
\* equals the totalAmount the server's preview computes for the same input.
C27_ClientTotalMatchesServer ==
    /\ (Done("updatePreview") /\ req.form.amount > 0) =>
           res.data.netAmount =
               100 * previewAmounts(req.form.amount, req.form.gst, req.form.tds).totalAmount
    /\ (Done("generateInvoiceHTML") /\ req.form.amount > 0) =>
           res.data.totalAmount =
               100 * previewAmounts(req.form.amount, req.form.gst, req.form.tds).totalAmount

\* C28: for every whole-rupee income >= 0, the totalTax of the browser's
\* calculateIndianTax(income, 0), in the slab loop of utils.js and in the
\* if-chain of main-simple.js, rounded to a whole rupee, equals
\* TaxService.calculateIncomeTax(income).
C28_ClientTaxMatchesServer ==
    ((Done("calculateIndianTax") \/ Done("calculateIndianTaxSimplified"))
        /\ req.income >= 0 /\ req.deductions = 0) =>
        Round(res.data.totalTax, 100) = calculateIncomeTax(req.income)

\* The slab loop on an income above two slabs whose tax ends in 50 paise:
\* the rounding decides the rupee.
C28_Witness ==
    /\ Done("calculateIndianTax")
    /\ req.deductions = 0
    /\ req.income > 500000
    /\ res.data.totalTax % 100 = 50
    /\ Round(res.data.totalTax, 100) = calculateIncomeTax(req.income)

\* The four due dates of the years y and y + 1.
DueDatesFrom(y) ==
    {[year |-> yy, month |-> m, day |-> 15] : yy \in {y, y + 1}, m \in {3, 6, 9, 12}}

\* C29: for every current date, getNextTaxDueDate returns the earliest of the
\* four due dates (March 15, June 15, September 15, December 15) that lies
\* strictly after now, taking next year's when this year's have passed, and
\* daysUntil >= 1.
C29_EarliestDueDate ==
    Done("getNextTaxDueDate") =>
        LET now == timeOf(req.today, req.minute)
            after == {d \in DueDatesFrom(req.today.year) : timeOf(d, 0) > now}
        IN  /\ res.data.date \in after
            /\ \A d \in after : timeOf(res.data.date, 0) <= timeOf(d, 0)
            /\ res.data.daysUntil >= 1


==============================================================================
